---- MODULE Spec2Model ----
(***************************************************************************)
(* ThinkiPlex course-PDF generator (src/thinkiplex/pdf/generator.py,       *)
(* src/thinkiplex/pdf/converters.py).                                      *)
(*                                                                         *)
(* File and directory names are sequences of one-character strings, so    *)
(* that str comparison, str.lower, str.split, str.replace, Path.suffix     *)
(* and the regular expressions of the code are computed on the text.      *)
(***************************************************************************)
EXTENDS Integers, Sequences, FiniteSets, TLC

----------------------------------------------------------------------------
(* Text: Python str operations used by generator.py.                       *)

\* The characters of the model in code-point order (ASCII).
Alphabet ==
    << " ", "%", "'", "-", ".", "0", "1", "2", "3", "4", "5", "6", "7", "8", "9",
       "A", "B", "C", "D", "E", "F", "G", "H", "I", "J", "K", "L", "M",
       "N", "O", "P", "Q", "R", "S", "T", "U", "V", "W", "X", "Y", "Z",
       "_",
       "a", "b", "c", "d", "e", "f", "g", "h", "i", "j", "k", "l", "m",
       "n", "o", "p", "q", "r", "s", "t", "u", "v", "w", "x", "y", "z" >>

Chars == { Alphabet[i] : i \in 1..Len(Alphabet) }

\* ord(c), up to an order-preserving renumbering.
Ord == [ c \in Chars |-> CHOOSE i \in 1..Len(Alphabet) : Alphabet[i] = c ]

Digits == { "0", "1", "2", "3", "4", "5", "6", "7", "8", "9" }

DigitVal(c) == Ord[c] - Ord["0"]

DigitChar(d) == Alphabet[Ord["0"] + d]

\* str.lower() on one character.
LowerChar(c) ==
    IF Ord[c] >= Ord["A"] /\ Ord[c] <= Ord["Z"]
    THEN Alphabet[Ord[c] - Ord["A"] + Ord["a"]]
    ELSE c

\* str.lower()
Lower(s) == [ i \in 1..Len(s) |-> LowerChar(s[i]) ]

\* str < str : lexicographic on code points.
RECURSIVE StrLt(_, _)
StrLt(a, b) ==
    IF b = << >> THEN FALSE
    ELSE IF a = << >> THEN TRUE
    ELSE IF a[1] # b[1] THEN Ord[a[1]] < Ord[b[1]]
    ELSE StrLt(Tail(a), Tail(b))

\* s.startswith(p)
StartsWith(s, p) == Len(s) >= Len(p) /\ SubSeq(s, 1, Len(p)) = p

\* s.endswith(p)
EndsWith(s, p) == Len(s) >= Len(p) /\ SubSeq(s, Len(s) - Len(p) + 1, Len(s)) = p

\* sub in s
Contains(s, sub) ==
    \E i \in 1..(Len(s) - Len(sub) + 1) : SubSeq(s, i, i + Len(sub) - 1) = sub

\* s.replace(old, new): every non-overlapping occurrence, left to right.
RECURSIVE Replace(_, _, _)
Replace(s, old, new) ==
    IF s = << >> THEN << >>
    ELSE IF StartsWith(s, old)
         THEN new \o Replace(SubSeq(s, Len(old) + 1, Len(s)), old, new)
         ELSE << s[1] >> \o Replace(Tail(s), old, new)

\* s.split(sep) for a one-character sep: the list of parts.
RECURSIVE Split(_, _)
Split(s, sep) ==
    IF \A i \in 1..Len(s) : s[i] # sep THEN << s >>
    ELSE LET k == CHOOSE i \in 1..Len(s) :
                      s[i] = sep /\ \A j \in 1..(i - 1) : s[j] # sep
         IN  << SubSeq(s, 1, k - 1) >> \o Split(SubSeq(s, k + 1, Len(s)), sep)

\* s.split(sep, maxsplit)
RECURSIVE SplitMax(_, _, _)
SplitMax(s, sep, maxsplit) ==
    IF maxsplit = 0 \/ \A i \in 1..Len(s) : s[i] # sep THEN << s >>
    ELSE LET k == CHOOSE i \in 1..Len(s) :
                      s[i] = sep /\ \A j \in 1..(i - 1) : s[j] # sep
         IN  << SubSeq(s, 1, k - 1) >>
             \o SplitMax(SubSeq(s, k + 1, Len(s)), sep, maxsplit - 1)

\* The number of leading decimal digits of s.
RECURSIVE DigitRun(_)
DigitRun(s) ==
    IF s # << >> /\ s[1] \in Digits THEN 1 + DigitRun(Tail(s)) ELSE 0

\* int(s) for a string of decimal digits.
RECURSIVE IntOf(_)
IntOf(s) ==
    IF s = << >> THEN 0
    ELSE 10 * IntOf(SubSeq(s, 1, Len(s) - 1)) + DigitVal(s[Len(s)])

\* str(n) for n >= 0.
RECURSIVE StrOf(_)
StrOf(n) ==
    IF n < 10 THEN << DigitChar(n) >>
    ELSE StrOf(n \div 10) \o << DigitChar(n % 10) >>

\* f"{n:0{w}d}": at least w digits, zero padded on the left.
RECURSIVE ZeroPad(_, _)
ZeroPad(d, w) == IF Len(d) >= w THEN d ELSE ZeroPad(<< "0" >> \o d, w)

Fmt04d(n) == ZeroPad(StrOf(n), 4)

Fmt03d(n) == ZeroPad(StrOf(n), 3)

\* re.match(r"^(\d+)\.", name): int(group(1)), or -1 when there is no match.
NumPrefix(name) ==
    LET k == DigitRun(name)
    IN  IF k >= 1 /\ Len(name) > k /\ name[k + 1] = "."
        THEN IntOf(SubSeq(name, 1, k))
        ELSE -1

\* PurePath.suffix of a file name: from the last dot, unless that dot is the
\* first or the last character.
Suffix(name) ==
    LET dots == { i \in 1..Len(name) : name[i] = "." }
    IN  IF dots = {} THEN << >>
        ELSE LET i == CHOOSE d \in dots : \A e \in dots : e <= d
             IN  IF i > 1 /\ i < Len(name) THEN SubSeq(name, i, Len(name))
                 ELSE << >>

\* list < list for lists of str (Path comparison compares the parts).
RECURSIVE PartsLt(_, _)
PartsLt(p, q) ==
    IF q = << >> THEN FALSE
    ELSE IF p = << >> THEN TRUE
    ELSE IF p[1] # q[1] THEN StrLt(p[1], q[1])
    ELSE PartsLt(Tail(p), Tail(q))

----------------------------------------------------------------------------
(* String literals of the code.                                            *)

s_summaries == << "s", "u", "m", "m", "a", "r", "i", "e", "s" >>

s_audio == << "a", "u", "d", "i", "o" >>

s_video == << "v", "i", "d", "e", "o" >>

s_transcripts == << "t", "r", "a", "n", "s", "c", "r", "i", "p", "t", "s" >>

s_data == << "d", "a", "t", "a" >>

s_courses == << "c", "o", "u", "r", "s", "e", "s" >>

s_downloads == << "d", "o", "w", "n", "l", "o", "a", "d", "s" >>

ext_md == << ".", "m", "d" >>

ext_html == << ".", "h", "t", "m", "l" >>

ext_txt == << ".", "t", "x", "t" >>

ext_pdf == << ".", "p", "d", "f" >>

s_summary_md == << "_", "s", "u", "m", "m", "a", "r", "y", ".", "m", "d" >>

s_divider_ == << "d", "i", "v", "i", "d", "e", "r", "_" >>

s_norm_ == << "n", "o", "r", "m", "_" >>

s_title_page == << "0", "0", "_", "t", "i", "t", "l", "e", "_", "p", "a", "g", "e", ".", "p", "d", "f" >>

s_toc_page == << "0", "1", "_", "t", "o", "c", "_", "p", "a", "g", "e", ".", "p", "d", "f" >>

s_norm_title == << "n", "o", "r", "m", "_", "0", "0", "0", "_", "t", "i", "t", "l", "e", "_", "p", "a", "g", "e", ".", "p", "d", "f" >>

s_norm_toc == << "n", "o", "r", "m", "_", "0", "0", "1", "_", "t", "o", "c", "_", "p", "a", "g", "e", ".", "p", "d", "f" >>

excluded_dirs == { s_audio, s_transcripts, s_video }

video_extensions ==
    { << ".", "m", "p", "4" >>,
      << ".", "a", "v", "i" >>,
      << ".", "m", "o", "v" >>,
      << ".", "w", "m", "v" >>,
      << ".", "f", "l", "v" >>,
      << ".", "m", "k", "v" >> }

audio_extensions ==
    { << ".", "m", "p", "3" >>,
      << ".", "w", "a", "v" >>,
      << ".", "a", "a", "c" >>,
      << ".", "o", "g", "g" >>,
      << ".", "f", "l", "a", "c" >>,
      << ".", "m", "4", "a" >> }

----------------------------------------------------------------------------
(* The names the downloads trees of the model are built from.              *)

d_1A == << "1", ".", "A" >>

d_01B == << "0", "1", ".", "B" >>

d_2000C == << "2", "0", "0", "0", ".", "C" >>

d_10000D == << "1", "0", "0", "0", "0", ".", "D" >>

d_misc == << "m", "i", "s", "c" >>

d_Summaries == << "S", "u", "m", "m", "a", "r", "i", "e", "s" >>

d_02summaries == << "0", "2", ".", "s", "u", "m", "m", "a", "r", "i", "e", "s" >>

d_05extra == << "0", "5", ".", "e", "x", "t", "r", "a" >>

d_1000late == << "1", "0", "0", "0", ".", "l", "a", "t", "e" >>

d_worksheets == << "w", "o", "r", "k", "s", "h", "e", "e", "t", "s" >>

d_docs == << "d", "o", "c", "s" >>

d_Audio == << "A", "u", "d", "i", "o" >>

d_srv == << "s", "r", "v" >>

f_a_md == << "a", ".", "m", "d" >>

f_a_summary_md == << "a", "_", "s", "u", "m", "m", "a", "r", "y", ".", "m", "d" >>

f_b_mp3 == << "b", ".", "m", "p", "3" >>

f_c_docx == << "c", ".", "d", "o", "c", "x" >>

f_t_md == << "t", ".", "m", "d" >>

f_b_pdf == << "b", ".", "p", "d", "f" >>

f_divider_12_md == << "d", "i", "v", "i", "d", "e", "r", "_", "1", "2", ".", "m", "d" >>

f_title_page_md == << "t", "i", "t", "l", "e", "_", "p", "a", "g", "e", ".", "m", "d" >>

f_x_y_md == << "x", "_", "y", ".", "m", "d" >>

CourseId == << "d", "e", "m", "o" >>

\* A source file of the tree: module directory, subgroup directory, the
\* directories below the subgroup, and the file name.
File(mod, sub, rel, file) == [ mod |-> mod, sub |-> sub, rel |-> rel, file |-> file ]

\* Locations of the directory that holds data/courses/<course_id>/downloads.
Roots == { << d_srv >>, << d_srv, s_transcripts >> }

WalkModuleDirs == { d_1A, d_01B, d_2000C, d_10000D }

\* Every module with a summaries, an unnumbered-before and an unnumbered-after
\* subgroup; one module with the other kinds of subgroup and of file; a
\* directory that is no module; a module with only an excluded subdirectory.
WalkUniverse ==
    { File(m, s, << >>, f) :
        m \in WalkModuleDirs, s \in { s_summaries, d_docs, d_worksheets },
        f \in { f_a_md, f_a_summary_md } }
    \cup { File(d_1A, s, << >>, f) :
             s \in { d_Summaries, d_02summaries, d_05extra, d_1000late, d_Audio },
             f \in { f_a_md, f_a_summary_md } }
    \cup { File(d_1A, d_docs, << >>, f_b_mp3),
           File(d_1A, d_docs, << >>, f_c_docx),
           File(d_1A, d_docs, << s_transcripts >>, f_t_md),
           File(d_misc, d_docs, << >>, f_a_md),
           File(d_2000C, d_Audio, << >>, f_a_md) }

MaxFiles == 3

f_divider_x_md == << "d", "i", "v", "i", "d", "e", "r", "_", "x", ".", "m", "d" >>

\* The trees whole runs of generate_course_pdf are made on: two modules, a
\* regular subgroup with plain names and names that hold the markers the code
\* looks for (divider_, title_page, an underscore), and a summaries subgroup.
PdfUniverse ==
    { File(m, d_docs, << >>, f) :
        m \in { d_1A, d_2000C },
        f \in { f_a_md, f_b_pdf, f_divider_12_md, f_divider_x_md, f_title_page_md, f_x_y_md } }
    \cup { File(d_1A, s_summaries, << >>, f_a_summary_md) }

MaxPdfFiles == 2

MaxCwdFiles == 1

MaxNormFail == 1

MaxMultiPage == 1

MaxConvFail == 1

VARIABLES
    root,           \* where the course data lives on disk
    tree,           \* the files under <root>/data/courses/<course_id>/downloads
    pc,             \* position of the run
    targets,        \* the calls _process_course_files made to _convert_file_to_pdf
    content_files,  \* the list _process_course_files returned
    enriched_content_files, \* the list _insert_module_dividers returned
    normalized_content_pdfs, \* the dividers and content after normalize_pdf_page_size
    n_pages,        \* the number of pages of each file of normalized_content_pdfs
    toc_sections,   \* the TOC entries generate_course_pdf builds
    toc_pages,      \* the number of pages create_toc_page rendered
    all_normalized_pdfs, \* the names of the files of the final merge, in order
    final,          \* the last _merge_pdf_files of generate_course_pdf
    final_bookmarks, \* the list _create_bookmarks_from_files built for that merge
    downloads_at,   \* where the downloads directory exists: "base_dir", "cwd", "missing"
    title_page,     \* create_cover_page has produced the cover
    error,          \* the exception generate_course_pdf raised, NoError if none
    temp_exists,    \* the temporary directories and files that exist
    norm_in,        \* normalize_pdf_page_size alone: the arguments and the files
    norm_out,       \* normalize_pdf_page_size alone: what the call did
    norm_again,     \* what a second call, on the file the first returned, did
    m_files,        \* _merge_pdf_files alone: the PDFs to merge, each its pages
    m_result,       \* _merge_pdf_files alone: what the call did
    par_in,         \* parallel_map: func, items, max_workers and whether a timeout is given
    par_task,       \* parallel_map: where each submitted call stands
    par_results,    \* parallel_map: the list results
    par_raised,     \* parallel_map: the exception that left the call, "" if none
    config_file,    \* Config: the YAML document in config_file, NoFileYet if there is none
    config,         \* Config: self.config
    config_before,  \* Config: self.config as it was when set was called
    set_call,       \* Config: the arguments of the call of set and the exception it raised
    config2,        \* Config: self.config of a second Config made from the same file
    config_raised,  \* Config: the exception that left Config(config_file), "" if none
    bm_in,          \* _add_bookmarks_to_pdf alone: the bookmark list, the pages of the PDF
    bm_out          \* _add_bookmarks_to_pdf alone: the outline the call attached

walk_vars == << root, tree, targets, content_files, enriched_content_files >>

merge_vars == << m_files, m_result >>

norm_vars == << norm_in, norm_out, norm_again >>

par_vars == << par_in, par_task, par_results, par_raised >>

cfg_vars == << config_file, config, config_before, set_call, config2, config_raised >>

bm_vars == << bm_in, bm_out >>

pdf_vars ==
    << normalized_content_pdfs, n_pages, toc_sections, toc_pages, all_normalized_pdfs, final,
       final_bookmarks >>

run_vars == << downloads_at, title_page, error, temp_exists >>

vars ==
    << root, tree, pc, targets, content_files, enriched_content_files,
       normalized_content_pdfs, n_pages, toc_sections, toc_pages, all_normalized_pdfs, final,
       final_bookmarks, downloads_at, title_page, error, temp_exists, norm_in, norm_out, norm_again,
       m_files, m_result, par_in, par_task, par_results, par_raised,
       config_file, config, config_before, set_call, config2, config_raised, bm_in, bm_out >>

----------------------------------------------------------------------------
(* _process_course_files                                                   *)

\* The sequence of the elements of S in the order Lt (a strict total order).
SortedSeq(S, Lt(_, _)) ==
    [ i \in 1..Cardinality(S) |->
        CHOOSE x \in S : Cardinality({ y \in S : Lt(y, x) }) = i - 1 ]

\* list.sort() on a list of records, by Lt on the records: stable.
StableSort(seq, Lt(_, _)) ==
    LET n == Len(seq)
        Before(i, j) == Lt(seq[i], seq[j]) \/ (~Lt(seq[j], seq[i]) /\ i < j)
        at(k) == CHOOSE i \in 1..n :
                     Cardinality({ j \in 1..n : Before(j, i) }) = k - 1
    IN  [ k \in 1..n |-> seq[at(k)] ]

\* The subsets of U of at most k elements.
RECURSIVE SubsetsUpTo(_, _)
SubsetsUpTo(U, k) ==
    IF k = 0 THEN { {} }
    ELSE LET S == SubsetsUpTo(U, k - 1)
         IN  S \cup { s \cup { x } : s \in S, x \in U }

RECURSIVE Flatten(_)
Flatten(seqs) == IF seqs = << >> THEN << >> ELSE Head(seqs) \o Flatten(Tail(seqs))

\* Tuples (number, path) compare by number, then by path.
NumPathLt(a, b) == a[1] < b[1] \/ (a[1] = b[1] /\ StrLt(a[2], b[2]))

\* Path.parts of a source file.
PathParts(r, f) ==
    r \o << s_data, s_courses, CourseId, s_downloads, f.mod, f.sub >> \o f.rel \o << f.file >>

_should_exclude_file(parts) ==
    \/ \E i \in 1..Len(parts) : parts[i] = s_transcripts
    \/ Lower(Suffix(parts[Len(parts)])) \in (video_extensions \cup audio_extensions)

\* modules: (module_num, path) of the directories named <digits>. , to be sorted.
modules(t) == { << NumPrefix(m), m >> : m \in { d \in { f.mod : f \in t } : NumPrefix(d) >= 0 } }

subdir_num(name) ==
    IF Lower(name) = s_summaries THEN 999
    ELSE IF NumPrefix(name) >= 0 THEN NumPrefix(name)
    ELSE 999

\* subdirs of one module: (subdir_num, path), excluded names left out, to be sorted.
subdirs(t, mod) ==
    { << subdir_num(s), s >> :
        s \in { d \in { f.sub : f \in { g \in t : g.mod = mod } } : Lower(d) \notin excluded_dirs } }

FileLt(f, g) == PartsLt(f.rel \o << f.file >>, g.rel \o << g.file >>)

\* The files one subdirectory contributes (summary_files or content_files), to be sorted.
subdir_files(r, t, mod, sub) ==
    LET here == { f \in t : f.mod = mod /\ f.sub = sub }
    IN  IF Lower(sub) = s_summaries
        THEN { f \in here : f.rel = << >> /\ EndsWith(f.file, s_summary_md) }
        ELSE { f \in here : ~_should_exclude_file(PathParts(r, f)) }

\* The files _convert_file_to_pdf is called for.
discovered(r, t) ==
    { f \in t : /\ NumPrefix(f.mod) >= 0
                /\ Lower(f.sub) \notin excluded_dirs
                /\ f \in subdir_files(r, t, f.mod, f.sub) }

\* enumerate(sorted(...)): the index of an element is the number of elements before it.
module_key(f) == << NumPrefix(f.mod), f.mod >>

subdir_key(f) == << subdir_num(f.sub), f.sub >>

subdir_idx(t, f) ==
    Cardinality({ k \in subdirs(t, f.mod) : NumPathLt(k, subdir_key(f)) })

file_idx(r, t, f) ==
    Cardinality({ g \in subdir_files(r, t, f.mod, f.sub) : FileLt(g, f) })

new_filename(module_num, subdir_idx_, file_idx_, name) ==
    Fmt04d(module_num) \o << "_" >> \o Fmt04d(subdir_idx_) \o << "_" >>
        \o Fmt04d(file_idx_) \o << "_" >> \o name

\* output_file of _convert_file_to_pdf.
output_name(name) == Replace(Replace(Replace(name, ext_md, ext_pdf), ext_html, ext_pdf), ext_txt, ext_pdf)

\* The order of the loops: modules, then subdirectories, then files.
CallBefore(f, g) ==
    \/ NumPathLt(module_key(f), module_key(g))
    \/ /\ f.mod = g.mod
       /\ \/ NumPathLt(subdir_key(f), subdir_key(g))
          \/ f.sub = g.sub /\ FileLt(f, g)

\* Every call of _convert_file_to_pdf, in call order.
conversion_targets(r, t) ==
    LET found == SortedSeq(discovered(r, t), CallBefore)
    IN  [ k \in 1..Len(found) |->
            [ src  |-> found[k],
              name |-> output_name(new_filename(NumPrefix(found[k].mod),
                                                subdir_idx(t, found[k]),
                                                file_idx(r, t, found[k]),
                                                found[k].file)) ] ]

NameLt(a, b) == StrLt(a.name, b.name)

NoFile == File(<< >>, << >>, << >>, << >>)

\* An entry of a list of PDF paths. The code reads `name` alone; role, src and
\* mod record what the file is: a converted source file, or the divider of a
\* module number, the cover or the table of contents.
Entry(name, role, src, mod) == [ name |-> name, role |-> role, src |-> src, mod |-> mod ]

\* The file on disk under a name is the one written last.
LastWriter(kept, name) ==
    kept[CHOOSE i \in 1..Len(kept) :
           kept[i].name = name /\ \A j \in (i + 1)..Len(kept) : kept[j].name # name].src

\* The extensions _convert_file_to_pdf has a branch for.
supported(file) == Lower(Suffix(file)) \in { ext_pdf, ext_md, ext_html, ext_txt }

\* The calls of _convert_file_to_pdf with what each returned: ok when it
\* returned output_file, not ok when it returned None (an unsupported
\* extension, or a conversion that raised: the calls of `failed`).
converted(called, failed) ==
    [ i \in 1..Len(called) |->
        [ src  |-> called[i].src,
          name |-> called[i].name,
          ok   |-> supported(called[i].src.file) /\ i \notin failed ] ]

\* pdf_files as returned, each path with the call that appended it: the calls
\* that returned a path, after pdf_files.sort() (stable, by path).
appended(done) == StableSort(SelectSeq(done, LAMBDA c : c.ok), NameLt)

\* pdf_files as returned, each path with the file that is on disk under it.
returned_files(done) ==
    LET kept == SelectSeq(done, LAMBDA c : c.ok)
    IN  StableSort([ i \in 1..Len(kept) |->
                       Entry(kept[i].name, "content", LastWriter(kept, kept[i].name),
                             NumPrefix(LastWriter(kept, kept[i].name).mod)) ],
                   NameLt)

\* _process_course_files: the walk, the conversions (those in `failed` raise),
\* and the final pdf_files.sort().
ProcessCourseFiles ==
    /\ pc = "start"
    /\ \E called \in { conversion_targets(root, tree) } :
       \E failed \in SubsetsUpTo({ i \in 1..Len(called) : supported(called[i].src.file) },
                                 MaxConvFail) :
       \E done \in { converted(called, failed) } :
         /\ targets' = done
         /\ content_files' = returned_files(done)
    /\ pc' = "processed"
    /\ UNCHANGED << root, tree, enriched_content_files, pdf_vars, run_vars, norm_vars, par_vars, merge_vars, cfg_vars, bm_vars >>

----------------------------------------------------------------------------
(* _insert_module_dividers                                                 *)

IntLt(a, b) == a < b

divider_name(module_num) == s_divider_ \o Fmt04d(module_num) \o ext_pdf

\* int(parts[0]) of file_name.split("_", 3)
module_num_of(name) == IntOf(SplitMax(name, "_", 3)[1])

_insert_module_dividers(files) ==
    LET grouped == SelectSeq(files, LAMBDA e : Len(SplitMax(e.name, "_", 3)) >= 3)
        keys    == SortedSeq({ module_num_of(grouped[i].name) : i \in 1..Len(grouped) }, IntLt)
    IN  IF files = << >> \/ grouped = << >> THEN files
        ELSE Flatten([ k \in 1..Len(keys) |->
                         << Entry(divider_name(keys[k]), "divider", NoFile, keys[k]) >>
                         \o SelectSeq(grouped, LAMBDA e : module_num_of(e.name) = keys[k]) ])

NoError == [ type |-> "none", text |-> "", path |-> << >> ]

\* raise ValueError(f"{text}: {path}") or raise ValueError(text)
ValueError(text, path) == [ type |-> "ValueError", text |-> text, path |-> path ]

\* The exception of the fallback merge_pdfs, re-raised by _merge_pdf_files.
MergeError == [ type |-> "Exception", text |-> "merge_pdfs", path |-> << >> ]

\* base_dir / "data" / "courses" / course_id, the parent of the directory looked for
course_dir(base_dir) == base_dir \o << s_data, s_courses, CourseId >>

\* base_dir / "data" / "courses" / course_id / "downloads"
downloads_dir(base_dir) == base_dir \o << s_data, s_courses, CourseId, s_downloads >>

\* generate_course_pdf up to the cover: the per-run temporary directory is
\* made, the downloads directory looked for under base_dir, then under the
\* current directory; found, the cover page is created. Leaving the `with`
\* block removes the per-run directory.
FindDownloads ==
    /\ pc = "new"
    /\ IF downloads_at = "missing"
       THEN /\ error' = ValueError("Downloads directory not found", downloads_dir(root))
            /\ temp_exists' = temp_exists
            /\ title_page' = title_page
            /\ pc' = "raised"
       ELSE /\ error' = error
            /\ temp_exists' = temp_exists \cup { "run_dir" }
            /\ title_page' = TRUE
            /\ pc' = "start"
    /\ UNCHANGED << walk_vars, pdf_vars, downloads_at, norm_vars, par_vars, merge_vars, cfg_vars, bm_vars >>

\* generate_course_pdf: no content file was converted.
NoContentFiles ==
    /\ pc = "processed"
    /\ content_files = << >>
    /\ pc' = "raised"
    /\ error' = ValueError("No content files generated", << >>)
    /\ temp_exists' = temp_exists \ { "run_dir" }
    /\ UNCHANGED << walk_vars, pdf_vars, downloads_at, title_page, norm_vars, par_vars, merge_vars, cfg_vars, bm_vars >>

InsertModuleDividers ==
    /\ pc = "processed"
    /\ content_files # << >>
    /\ enriched_content_files' = _insert_module_dividers(content_files)
    /\ pc' = "divided"
    /\ UNCHANGED << root, tree, targets, content_files, pdf_vars, run_vars, norm_vars, par_vars, merge_vars, cfg_vars, bm_vars >>

----------------------------------------------------------------------------
(* Config (thinkiplex/utils/config.py)                                     *)

\* A value (what yaml.safe_load returns, what set is given) is a tree: the
\* set of its nodes, each with the keys that lead to it from the root of the
\* value, its kind ("dict", "str", "bool", "int", "none", "tuple") and, for a
\* scalar, its text.
Node(path, kind, value) == [ path |-> path, kind |-> kind, value |-> value ]

Scalar(kind, value) == { Node(<< >>, kind, value) }

EmptyDict == { Node(<< >>, "dict", "") }

\* None
NoneValue == Scalar("none", "")

IsPrefix(p, q) == Len(p) <= Len(q) /\ SubSeq(q, 1, Len(p)) = p

\* The kind of value[k1][k2]..., "absent" when there is no such entry.
KindAt(value, parts) ==
    IF \E n \in value : n.path = parts
    THEN (CHOOSE n \in value : n.path = parts).kind
    ELSE "absent"

\* value[k1][k2]...
Under(value, parts) ==
    { Node(SubSeq(n.path, Len(parts) + 1, Len(n.path)), n.kind, n.value) :
        n \in { m \in value : IsPrefix(parts, m.path) } }

\* value after value[k1][k2]... = v
With(value, parts, v) ==
    { n \in value : ~IsPrefix(parts, n.path) }
        \cup { Node(parts \o n.path, n.kind, n.value) : n \in v }

\* A dict built from its items.
RECURSIVE DictOf(_)
DictOf(items) ==
    IF items = << >> THEN EmptyDict
    ELSE With(DictOf(Tail(items)), << Head(items)[1] >>, Head(items)[2])

\* The keys of the configuration.
k_global == << "g", "l", "o", "b", "a", "l" >>

k_base_dir == << "b", "a", "s", "e", "_", "d", "i", "r" >>

k_video_quality == << "v", "i", "d", "e", "o", "_", "q", "u", "a", "l", "i", "t", "y" >>

k_extract_audio == << "e", "x", "t", "r", "a", "c", "t", "_", "a", "u", "d", "i", "o" >>

k_audio_quality == << "a", "u", "d", "i", "o", "_", "q", "u", "a", "l", "i", "t", "y" >>

k_audio_format == << "a", "u", "d", "i", "o", "_", "f", "o", "r", "m", "a", "t" >>

k_courses == << "c", "o", "u", "r", "s", "e", "s" >>

k_example_course == << "e", "x", "a", "m", "p", "l", "e", "-", "c", "o", "u", "r", "s", "e" >>

k_course_link == << "c", "o", "u", "r", "s", "e", "_", "l", "i", "n", "k" >>

k_show_name == << "s", "h", "o", "w", "_", "n", "a", "m", "e" >>

k_season == << "s", "e", "a", "s", "o", "n" >>

\* Dot-notation paths.
p_global_video_quality == << "g", "l", "o", "b", "a", "l", ".", "v", "i", "d", "e", "o", "_", "q", "u", "a", "l", "i", "t", "y" >>

p_global_video_quality_x == << "g", "l", "o", "b", "a", "l", ".", "v", "i", "d", "e", "o", "_", "q", "u", "a", "l", "i", "t", "y", ".", "x" >>

p_global == << "g", "l", "o", "b", "a", "l" >>

p_global_season == << "g", "l", "o", "b", "a", "l", ".", "s", "e", "a", "s", "o", "n" >>

p_courses_example_course_season == << "c", "o", "u", "r", "s", "e", "s", ".", "e", "x", "a", "m", "p", "l", "e", "-", "c", "o", "u", "r", "s", "e", ".", "s", "e", "a", "s", "o", "n" >>

p_season == << "s", "e", "a", "s", "o", "n" >>

\* yaml.dump(data, f, default_flow_style=False): the document written.  The
\* default Dumper writes a tuple under the tag !!python/tuple.
yaml_dump(data) ==
    { Node(n.path, IF n.kind = "tuple" THEN "!!python/tuple" ELSE n.kind, n.value) : n \in data }

\* yaml.safe_load(f): the value, or the exception for a tag the safe loader
\* has no constructor for.
safe_load(document) ==
    IF \E n \in document : n.kind = "!!python/tuple"
    THEN [ raised |-> "ConstructorError", value |-> NoneValue ]
    ELSE [ raised |-> "", value |-> document ]

\* No file at config_file.
NoFileYet == { Node(<< >>, "missing", "") }

\* No Config object.
NoConfig == { Node(<< >>, "unset", "") }

NoSetCall == [ path |-> << >>, value |-> NoneValue, raised |-> "" ]

\* GlobalConfig.validate_quality
valid_qualities == { "Original File", "1080p", "720p", "540p", "360p", "224p" }

\* default_config of _create_default_config
default_config ==
    DictOf(<< << k_global,
                 DictOf(<< << k_base_dir, Scalar("str", "/cwd") >>,
                           << k_video_quality, Scalar("str", "720p") >>,
                           << k_extract_audio, Scalar("bool", "True") >>,
                           << k_audio_quality, Scalar("int", "0") >>,
                           << k_audio_format, Scalar("str", "mp3") >> >>) >>,
              << k_courses,
                 DictOf(<< << k_example_course,
                    DictOf(<< << k_course_link,
                                 Scalar("str", "https://example.thinkific.com/courses/take/example-course") >>,
                              << k_show_name, Scalar("str", "Example Course") >>,
                              << k_season, Scalar("str", "01") >>,
                              << k_video_quality, Scalar("str", "720p") >>,
                              << k_extract_audio, Scalar("bool", "True") >>,
                              << k_audio_quality, Scalar("int", "0") >>,
                              << k_audio_format, Scalar("str", "mp3") >> >>) >> >>) >> >>)

\* Config._load_config, with _create_default_config when there is no file:
\* the file afterwards, the value loaded and the exception raised.
_load_config(file) ==
    LET document == IF file = NoFileYet THEN yaml_dump(default_config) ELSE file
        loaded   == safe_load(document)
    IN  [ file |-> document, raised |-> loaded.raised,
          config |-> IF loaded.raised = "" THEN loaded.value ELSE NoConfig ]

\* Config.get: the walk along the parts of the path.
RECURSIVE get_parts(_, _, _)
get_parts(value, parts, fallback) ==
    IF parts = << >> THEN value
    ELSE IF KindAt(value, << >>) = "dict" /\ KindAt(value, << Head(parts) >>) # "absent"
         THEN get_parts(Under(value, << Head(parts) >>), Tail(parts), fallback)
         ELSE fallback

\* Config.get(path, fallback)
get(cfg, path, fallback) == get_parts(cfg, Split(path, "."), fallback)

\* Config.set: the walk to the parent of the target key, creating the dicts
\* that are missing, then the assignment.  `part not in config`,
\* config[part] = {} and config[parts[-1]] = value raise TypeError on a value
\* that is no dict; nothing has been created when that happens, for every
\* dict created on the way is empty.
RECURSIVE set_parts(_, _, _)
set_parts(cfg, parts, value) ==
    IF KindAt(cfg, << >>) # "dict" THEN [ raised |-> "TypeError", config |-> cfg ]
    ELSE IF Len(parts) = 1 THEN [ raised |-> "", config |-> With(cfg, parts, value) ]
    ELSE LET child == IF KindAt(cfg, << Head(parts) >>) = "absent" THEN EmptyDict
                      ELSE Under(cfg, << Head(parts) >>)
             below == set_parts(child, Tail(parts), value)
         IN  IF below.raised # "" THEN [ raised |-> below.raised, config |-> cfg ]
             ELSE [ raised |-> "", config |-> With(cfg, << Head(parts) >>, below.config) ]

\* The configuration files: none, an empty one, one the safe loader rejects,
\* and global.video_quality set to a valid or an invalid quality, with or
\* without courses.
Qualities == { "720p", "1080p", "invalid-quality" }

ConfigFiles ==
    { NoFileYet, NoneValue, { Node(<< >>, "!!python/tuple", "(1, 2)") } }
        \cup { DictOf(<< << k_global, DictOf(<< << k_base_dir, Scalar("str", "/tmp/thinkiplex") >>,
                                                 << k_video_quality, Scalar("str", q) >> >>) >>,
                         << k_courses, EmptyDict >> >>) : q \in Qualities }
        \cup { DictOf(<< << k_global, DictOf(<< << k_video_quality, Scalar("str", q) >> >>) >> >>) :
                  q \in Qualities }

\* The paths set is called with.
SetPaths ==
    { p_global_video_quality, p_global_video_quality_x, p_global, p_global_season,
      p_courses_example_course_season, p_season }

\* The values set is called with.
SetValues ==
    { Scalar("str", "1080p"), Scalar("str", "invalid-quality"), Scalar("int", "0"), NoneValue,
      EmptyDict, DictOf(<< << k_season, Scalar("str", "01") >> >>), Scalar("tuple", "(1, 2)") }

\* Config(config_file)
LoadConfig ==
    /\ pc = "cfg"
    /\ \E loaded \in { _load_config(config_file) } :
         /\ config_file' = loaded.file
         /\ config' = loaded.config
         /\ config_raised' = loaded.raised
         /\ pc' = IF loaded.raised = "" THEN "cfg_loaded" ELSE "cfg_raised"
    /\ UNCHANGED << walk_vars, pdf_vars, run_vars, norm_vars, par_vars, merge_vars, bm_vars, config_before,
                    set_call, config2 >>

\* config.set(path, value)
SetValue ==
    /\ pc = "cfg_loaded"
    /\ \E path \in SetPaths, value \in SetValues :
       \E result \in { set_parts(config, Split(path, "."), value) } :
         /\ config_before' = config
         /\ config' = result.config
         /\ set_call' = [ path |-> path, value |-> value, raised |-> result.raised ]
         /\ pc' = IF result.raised = "" THEN "cfg_set" ELSE "cfg_set_raised"
    /\ UNCHANGED << walk_vars, pdf_vars, run_vars, norm_vars, par_vars, merge_vars, bm_vars, config_file,
                    config2, config_raised >>

\* config.save()
SaveConfig ==
    /\ pc = "cfg_set"
    /\ config_file' = yaml_dump(config)
    /\ pc' = "cfg_saved"
    /\ UNCHANGED << walk_vars, pdf_vars, run_vars, norm_vars, par_vars, merge_vars, bm_vars, config,
                    config_before, set_call, config2, config_raised >>

\* Config(config_file) once more, on the file save wrote
ReloadConfig ==
    /\ pc = "cfg_saved"
    /\ \E loaded \in { _load_config(config_file) } :
         /\ config2' = loaded.config
         /\ config_raised' = loaded.raised
         /\ pc' = IF loaded.raised = "" THEN "cfg_reloaded" ELSE "cfg_reload_raised"
    /\ UNCHANGED << walk_vars, pdf_vars, run_vars, norm_vars, par_vars, merge_vars, bm_vars, config_file,
                    config, config_before, set_call >>

----------------------------------------------------------------------------
(* _add_bookmarks_to_pdf: the outline                                      *)

MaxBookmarks == 3

MaxBookmarkPages == 2

\* The "page" of a bookmark entry: an int n, a str (of the digits of n, or
\* not a number), None, or the float n + 0.5.
PageValue(kind, n) == [ kind |-> kind, n |-> n ]

PageValues ==
    { PageValue("int", n) : n \in (0 - 1)..MaxBookmarkPages }
        \cup { PageValue("str", 1), PageValue("str_no_number", 0), PageValue("none", 0),
               PageValue("float", 0) }

BookmarkTitles == { "Module 1", "Module 2", "Intro" }

BookmarkEntries == [ title : BookmarkTitles, level : 0..1, page : PageValues ]

BookmarkLists == UNION { [ 1..n -> BookmarkEntries ] : n \in 0..MaxBookmarks }

\* What writer.add_outline_item does with a page number that is a float: the
\* PyPDF2 release decides (the dependency is not pinned); NumberObject takes
\* int() of it, or the call raises.
FloatOutcomes == { "truncated", "raises" }

NoBookmarkInput == [ bookmarks |-> << >>, num_pages |-> 0, float_page |-> "truncated" ]

NoOutline == [ raised_inside |-> FALSE, outline |-> << >> ]

\* The two try blocks around page_num: the entry goes on to be attached.
valid_page(page, num_pages) ==
    /\ page.kind \in { "int", "str", "float" }
    /\ ~(page.n < 0 \/ page.n >= num_pages)

\* bookmark_refs: the outline item last stored under each title, 0 for none.
NoRefs == [ t \in BookmarkTitles |-> 0 ]

\* writer.add_outline_item(title, page_num, parent) and
\* bookmark_refs[title] = the new item.
attach(acc, i, bookmark, parent, float_page) ==
    IF bookmark.page.kind = "float" /\ float_page = "raises"
    THEN [ acc EXCEPT !.raised = TRUE ]
    ELSE [ raised  |-> acc.raised,
           outline |-> Append(acc.outline,
                              [ entry |-> i, title |-> bookmark.title, page |-> bookmark.page.n,
                                parent |-> parent ]),
           refs    |-> [ acc.refs EXCEPT ![bookmark.title] = Len(acc.outline) + 1 ] ]

\* The loop "First add all top-level bookmarks", from entry i on.
RECURSIVE top_level_pass(_, _, _, _, _)
top_level_pass(acc, bookmarks, i, num_pages, float_page) ==
    IF i > Len(bookmarks) \/ acc.raised THEN acc
    ELSE top_level_pass(
            IF valid_page(bookmarks[i].page, num_pages) /\ bookmarks[i].level = 0
            THEN attach(acc, i, bookmarks[i], 0, float_page)
            ELSE acc,
            bookmarks, i + 1, num_pages, float_page)

\* "Find parent bookmark": the title of the nearest entry before i with a
\* lower level, "" when there is none.
parent_title(bookmarks, i) ==
    LET lower == { j \in 1..(i - 1) : bookmarks[j].level < bookmarks[i].level }
    IN  IF lower = {} THEN ""
        ELSE bookmarks[CHOOSE j \in lower : \A k \in lower : k <= j].title

\* The loop "Then add child bookmarks", from entry i on.
RECURSIVE child_pass(_, _, _, _, _)
child_pass(acc, bookmarks, i, num_pages, float_page) ==
    IF i > Len(bookmarks) \/ acc.raised THEN acc
    ELSE child_pass(
            IF valid_page(bookmarks[i].page, num_pages) /\ bookmarks[i].level # 0
            THEN LET title == parent_title(bookmarks, i)
                 IN  IF title # "" /\ acc.refs[title] # 0
                     THEN attach(acc, i, bookmarks[i], acc.refs[title], float_page)
                     ELSE attach(acc, i, bookmarks[i], 0, float_page)
            ELSE acc,
            bookmarks, i + 1, num_pages, float_page)

\* The outline _add_bookmarks_to_pdf writes: its items in the order they are
\* added, each with the entry it comes from, its page and its parent (the
\* position of another item, 0 at top level).  An exception inside is caught
\* by the function and nothing is written.
add_outline(in) ==
    LET first  == top_level_pass([ raised |-> FALSE, outline |-> << >>, refs |-> NoRefs ],
                                 in.bookmarks, 1, in.num_pages, in.float_page)
        second == child_pass(first, in.bookmarks, 1, in.num_pages, in.float_page)
    IN  [ raised_inside |-> second.raised,
          outline |-> IF second.raised THEN << >> ELSE second.outline ]

\* One call of _add_bookmarks_to_pdf.
AddBookmarks ==
    /\ pc = "bm"
    /\ bm_out' = add_outline(bm_in)
    /\ pc' = "bm_done"
    /\ UNCHANGED << walk_vars, pdf_vars, run_vars, norm_vars, par_vars, merge_vars, cfg_vars, bm_in >>

----------------------------------------------------------------------------
(* parallel_map (thinkiplex/utils/parallel.py)                             *)

MaxItems == 3

MaxItem == 2

MaxWorkers == 2

\* What func does on an item: it returns, it raises an exception derived
\* from Exception, it raises one that is not (SystemExit,
\* KeyboardInterrupt), or it never ends; the worker process hands a result
\* or an exception of either kind back through the future.
FuncOutcomes == { "returns", "Exception", "BaseException", "hangs" }

\* The value func returns: the function of the unit tests.
work_func(x) == x * 2

Items == UNION { [ 1..n -> 1..MaxItem ] : n \in 0..MaxItems }

ParInputs ==
    [ func : [ 1..MaxItem -> FuncOutcomes ], items : Items,
      max_workers : 1..MaxWorkers, timeout : BOOLEAN ]

NoParInput ==
    [ func |-> [ x \in 1..MaxItem |-> "returns" ], items |-> << >>,
      max_workers |-> 1, timeout |-> FALSE ]

\* A loop body that appends an entry for every completed future, failed or
\* not.
collected_always(results, outcome, result) == Append(results, result)

\* The body of the loop over the completed futures: the result is appended,
\* an Exception is logged and leaves results as it was.
collected(results, outcome, result) ==
    IF outcome = "returns" THEN Append(results, result) ELSE results

\* A position that leaves the with block whatever was pending.
leaves_returning(raised) == "par_returned"

\* Where the call is once the with block is left: at return results, or out
\* of the function with the exception that left the loop.
leaves(raised) == IF raised = "" THEN "par_returned" ELSE "par_raised"

\* executor.submit for every item: the futures, none started yet.
Submit ==
    /\ pc = "par"
    /\ par_task' = [ i \in 1..Len(par_in.items) |-> "queued" ]
    /\ pc' = "par_wait"
    /\ UNCHANGED << walk_vars, pdf_vars, run_vars, norm_vars, merge_vars, cfg_vars, bm_vars, par_in, par_results,
                    par_raised >>

\* A free worker process takes the oldest call still queued.
StartTask ==
    /\ pc \in { "par_wait", "par_shutdown" }
    /\ Cardinality({ i \in 1..Len(par_task) : par_task[i] = "running" }) < par_in.max_workers
    /\ \E i \in 1..Len(par_task) :
         /\ par_task[i] = "queued"
         /\ \A j \in 1..(i - 1) : par_task[j] # "queued"
         /\ par_task' = [ par_task EXCEPT ![i] = "running" ]
    /\ UNCHANGED << walk_vars, pdf_vars, run_vars, norm_vars, merge_vars, cfg_vars, bm_vars, pc, par_in, par_results,
                    par_raised >>

\* A worker process finishes its call, in any order among the running ones;
\* a call of a func that never ends stays running.
FinishTask ==
    /\ pc \in { "par_wait", "par_shutdown" }
    /\ \E i \in 1..Len(par_task) :
         /\ par_task[i] = "running"
         /\ par_in.func[par_in.items[i]] # "hangs"
         /\ par_task' = [ par_task EXCEPT ![i] = "finished" ]
    /\ UNCHANGED << walk_vars, pdf_vars, run_vars, norm_vars, merge_vars, cfg_vars, bm_vars, pc, par_in, par_results,
                    par_raised >>

\* as_completed yields a finished future (any of them when several are
\* finished) and the loop body runs on it.  An exception that is not an
\* Exception passes the handler and leaves parallel_map.
Collect ==
    /\ pc = "par_wait"
    /\ \E i \in 1..Len(par_task) :
         /\ par_task[i] = "finished"
         /\ par_task' = [ par_task EXCEPT ![i] = "collected" ]
         /\ \E outcome \in { par_in.func[par_in.items[i]] } :
              IF outcome = "BaseException"
              THEN /\ par_raised' = "BaseException"
                   /\ pc' = "par_shutdown"
                   /\ UNCHANGED par_results
              ELSE /\ par_results' = collected(par_results, outcome, work_func(par_in.items[i]))
                   /\ UNCHANGED << pc, par_raised >>
    /\ UNCHANGED << walk_vars, pdf_vars, run_vars, norm_vars, merge_vars, cfg_vars, bm_vars, par_in >>

\* as_completed(..., timeout=timeout) runs out of time while a call has not
\* finished: TimeoutError leaves the loop.
TimeoutElapses ==
    /\ pc = "par_wait"
    /\ par_in.timeout
    /\ \E i \in 1..Len(par_task) : par_task[i] \in { "queued", "running" }
    /\ par_raised' = "TimeoutError"
    /\ pc' = "par_shutdown"
    /\ UNCHANGED << walk_vars, pdf_vars, run_vars, norm_vars, merge_vars, cfg_vars, bm_vars, par_in, par_task,
                    par_results >>

\* Every future has been yielded: the loop ends.
LoopEnds ==
    /\ pc = "par_wait"
    /\ \A i \in 1..Len(par_task) : par_task[i] = "collected"
    /\ pc' = "par_shutdown"
    /\ UNCHANGED << walk_vars, pdf_vars, run_vars, norm_vars, merge_vars, cfg_vars, bm_vars, par_in, par_task,
                    par_results, par_raised >>

\* The with block is left, by the end of the loop or by an exception: the
\* executor's shutdown waits for every call still queued or running, then
\* results is returned or the exception goes on to the caller.
Shutdown ==
    /\ pc = "par_shutdown"
    /\ \A i \in 1..Len(par_task) : par_task[i] \in { "finished", "collected" }
    /\ pc' = leaves(par_raised)
    /\ UNCHANGED << walk_vars, pdf_vars, run_vars, norm_vars, merge_vars, cfg_vars, bm_vars, par_in, par_task,
                    par_results, par_raised >>

----------------------------------------------------------------------------
(* normalize_pdf_page_size                                                 *)

\* Page sizes are << width, height >> in points.

Abs(x) == IF x < 0 THEN 0 - x ELSE x

\* standard_paper_sizes in the order of the dict: letter, legal, tabloid, a4,
\* a3, a5.
standard_paper_sizes ==
    << << 612, 792 >>, << 612, 1008 >>, << 792, 1224 >>,
       << 595, 842 >>, << 842, 1190 >>, << 420, 595 >> >>

\* abs(a - b) / b <= 0.01
Within1Percent(a, b) == 100 * Abs(a - b) <= b

\* The paper a page size is first recognised as (in that orientation), or
\* << >> when it is no standard size or standard_sizes is off.
detected_paper_size(size, standard_sizes) ==
    LET upright(k) == /\ Within1Percent(size[1], standard_paper_sizes[k][1])
                      /\ Within1Percent(size[2], standard_paper_sizes[k][2])
        rotated(k) == /\ Within1Percent(size[1], standard_paper_sizes[k][2])
                      /\ Within1Percent(size[2], standard_paper_sizes[k][1])
        hits == { k \in 1..Len(standard_paper_sizes) : upright(k) \/ rotated(k) }
        first == CHOOSE k \in hits : \A j \in hits : k <= j
    IN  IF ~standard_sizes \/ hits = {} THEN << >>
        ELSE IF upright(first) THEN standard_paper_sizes[first]
        ELSE << standard_paper_sizes[first][2], standard_paper_sizes[first][1] >>

\* A page kept only when it is a recognised standard paper: the 5% rule left
\* out.
keeps_page_standard_only(size, target, standard_sizes) ==
    detected_paper_size(size, standard_sizes) # << >>

\* The page is added as it is: it is a standard paper, or within 5% of the
\* target in both directions.
keeps_page(size, target, standard_sizes) ==
    \/ detected_paper_size(size, standard_sizes) # << >>
    \/ /\ 20 * Abs(size[1] - target[1]) <= target[1]
       /\ 20 * Abs(size[2] - target[2]) <= target[2]

\* The division by target_width or target_height raises for a page that is
\* no standard paper.
page_raises(size, target, standard_sizes) ==
    /\ detected_paper_size(size, standard_sizes) = << >>
    /\ target[1] = 0 \/ target[2] = 0

\* a resized page shrunk to 95% of its own size instead of set on a target page
normalize_page_scaled(size, target, standard_sizes) ==
    IF keeps_page(size, target, standard_sizes) THEN size
    ELSE << (95 * size[1]) \div 100, (95 * size[2]) \div 100 >>

\* The size of the page the writer gets for one input page: the page itself,
\* or a blank page of the target size with the content scaled into it.
normalize_page(size, target, standard_sizes) ==
    IF keeps_page(size, target, standard_sizes) THEN size ELSE target

\* Numbers that are no integers are fractions << numerator, denominator >>
\* with a positive denominator.
SameFraction(a, b) == a[1] * b[2] = b[1] * a[2]

\* How the content of an input page lies on the page the writer gets:
\* scaled by scale_x and scale_y and moved by x_offset and y_offset.  A page
\* added as it is has its content where it was.  On a blank target page the
\* content is merged with Transformation().scale(scale).translate(x_offset,
\* y_offset) when preserve_aspect_ratio is set, scale being 95% of the
\* smaller of target_width / current_width and target_height /
\* current_height; when it is not set the page is merged with merge_page,
\* which takes no transformation.
placement(size, target, standard_sizes, preserve_aspect_ratio) ==
    LET as_it_is == [ new_page |-> FALSE, scale_x |-> << 1, 1 >>, scale_y |-> << 1, 1 >>,
                      x_offset |-> << 0, 1 >>, y_offset |-> << 0, 1 >> ]
        by_width == target[1] * size[2] <= target[2] * size[1]
        scale    == IF by_width THEN << 95 * target[1], 100 * size[1] >>
                    ELSE << 95 * target[2], 100 * size[2] >>
    IN  IF keeps_page(size, target, standard_sizes) THEN as_it_is
        ELSE IF preserve_aspect_ratio
        THEN [ new_page |-> TRUE, scale_x |-> scale, scale_y |-> scale,
               \* (target_width - current_width * scale) / 2
               x_offset |-> << target[1] * scale[2] - size[1] * scale[1], 2 * scale[2] >>,
               y_offset |-> << target[2] * scale[2] - size[2] * scale[1], 2 * scale[2] >> ]
        ELSE [ as_it_is EXCEPT !.new_page = TRUE ]

\* Where normalize_pdf_page_size is told to write: a temporary file of its own
\* (output_file is None), another path, or the path of pdf_file itself.
OutputChoices == { "none", "other", "same" }

\* What happens inside the try block besides the arithmetic: nothing, an
\* exception while the input is read, or one while the output is written.
NormFaults == { "ok", "read_raises", "write_raises" }

\* normalize_pdf_page_size(pdf_file, output_file, target_size, ...,
\* standard_sizes) on a file with these page sizes.
\*   fault     what happened besides the arithmetic
\*   raised    an exception left the function ("" when none)
\*   content   how each page's content lies on the page written for it
\*   returned  "output" the new file, "original" pdf_file, "none" None
\*   sizes     the page sizes of the file whose path was returned
\*   original  the page sizes of pdf_file afterwards
\*   intact    pdf_file is the file it was before the call
normalize_pdf_page_size(in, fault) ==
    LET failed == \/ fault # "ok"
                  \/ \E k \in 1..Len(in.sizes) :
                        page_raises(in.sizes[k], in.target, in.standard_sizes)
        new    == [ k \in 1..Len(in.sizes) |->
                      normalize_page(in.sizes[k], in.target, in.standard_sizes) ]
        placed == [ k \in 1..Len(in.sizes) |->
                      placement(in.sizes[k], in.target, in.standard_sizes,
                                in.preserve_aspect_ratio) ]
        \* open(output_file, "wb") on the input's own path empties it
        clobbered == in.output = "same" /\ fault = "write_raises"
    IN  IF ~in.exists
        THEN [ fault |-> fault, raised |-> "FileNotFoundError", returned |-> "none", sizes |-> << >>, content |-> << >>,
               original |-> << >>, intact |-> TRUE ]
        ELSE IF ~failed
        THEN [ fault |-> fault, raised |-> "", returned |-> "output", sizes |-> new, content |-> placed,
               original |-> IF in.output = "same" THEN new ELSE in.sizes,
               intact |-> in.output # "same" ]
        ELSE IF in.output # "same"
        THEN [ fault |-> fault, raised |-> "", returned |-> "original", sizes |-> in.sizes, content |-> << >>,
               original |-> in.sizes, intact |-> TRUE ]
        ELSE [ fault |-> fault, raised |-> "", returned |-> "none", sizes |-> << >>, content |-> << >>,
               original |-> IF clobbered THEN << >> ELSE in.sizes,
               intact |-> ~clobbered ]

NoNormInput ==
    [ exists |-> FALSE, sizes |-> << >>, target |-> << 0, 0 >>, standard_sizes |-> FALSE,
      preserve_aspect_ratio |-> TRUE, output |-> "none" ]

NoNormResult ==
    [ fault |-> "ok", raised |-> "", returned |-> "none", sizes |-> << >>, content |-> << >>,
      original |-> << >>, intact |-> TRUE ]

MaxNormPages == 2

\* Page widths and heights: standard papers, sizes within 1% of one, sizes
\* within 5% of a target, and sizes far from all of them.
PageSizes ==
    { << 612, 792 >>, << 792, 612 >>, << 615, 795 >>, << 595, 842 >>, << 630, 810 >>,
      << 600, 800 >>, << 300, 400 >>, << 1000, 500 >>, << 640, 792 >> }

TargetSizes == { << 612, 792 >>, << 595, 842 >>, << 600, 800 >>, << 0, 792 >> }

PageLists == UNION { [ 1..n -> PageSizes ] : n \in 0..MaxNormPages }

NormInputs ==
    [ exists : BOOLEAN, sizes : PageLists, target : TargetSizes, standard_sizes : BOOLEAN,
      preserve_aspect_ratio : BOOLEAN, output : OutputChoices ]

\* One call of normalize_pdf_page_size.
NormalizePdf ==
    /\ pc = "norm"
    /\ \E fault \in NormFaults : norm_out' = normalize_pdf_page_size(norm_in, fault)
    /\ pc' = "norm_once"
    /\ UNCHANGED << walk_vars, pdf_vars, run_vars, norm_in, norm_again, par_vars, merge_vars, cfg_vars, bm_vars >>

\* A second call with the same arguments on the file the first call returned.
NormalizeAgain ==
    /\ pc = "norm_once"
    /\ norm_out.returned # "none"
    /\ \E fault \in NormFaults :
           norm_again' = normalize_pdf_page_size([ norm_in EXCEPT !.sizes = norm_out.sizes ], fault)
    /\ pc' = "norm_twice"
    /\ UNCHANGED << walk_vars, pdf_vars, run_vars, norm_in, norm_out, par_vars, merge_vars, cfg_vars, bm_vars >>

----------------------------------------------------------------------------
(* merge_pdfs and _merge_pdf_files                                         *)

\* A PDF file is the sequence of its pages; a page is named by the file it
\* comes from and its number in that file. A path that does not exist or that
\* PyPDF2 cannot read has no pages.

\* merge_pdfs: the pages of the files in order; a file that is missing or
\* cannot be appended is skipped. (Writing the output may raise: see below.)
merge_pdfs(docs) == Flatten(docs)

batch_size == 10

Min(a, b) == IF a < b THEN a ELSE b

\* range(0, len(pdf_files), batch_size)
batch_starts(n) == { i \in 0..(n - 1) : i % batch_size = 0 }

\* pdf_files[i : i + batch_size + 1], a slice one too long
batch_at_overlap(docs, i) == SubSeq(docs, i + 1, Min(i + batch_size + 1, Len(docs)))

\* pdf_files[i : i + batch_size] for a 0-based i
batch_at(docs, i) == SubSeq(docs, i + 1, Min(i + batch_size, Len(docs)))

\* The batches in loop order.
batches_of(docs) ==
    [ b \in 1..Cardinality(batch_starts(Len(docs))) |-> batch_at(docs, (b - 1) * batch_size) ]

\* What happens inside _add_bookmarks_to_pdf: nothing, or an exception while
\* the merged file is read and the outline built, while the .tmp file is
\* written, or while it is renamed over the merged file.
BookmarkOutcomes == { "ok", "read_raises", "write_raises", "replace_raises" }

\* What the environment does to one call of _merge_pdf_files:
\*   tmp         "ok", or TemporaryDirectory raises on entry or on cleanup
\*   batch_fail  the batches (1-based) whose merge_pdfs raises
\*   final_fail  merge_pdfs of the intermediates raises
\*   direct_fail the fallback merge_pdfs of the whole list raises
\*   bookmark    what happens inside _add_bookmarks_to_pdf
MergeEnvs(n_batches) ==
    [ tmp : { "ok", "enter_raises", "cleanup_raises" },
      batch_fail : SUBSET (1..n_batches),
      final_fail : BOOLEAN,
      direct_fail : BOOLEAN,
      bookmark : BookmarkOutcomes ]

\* `except Exception` around the batched path: whatever it raised, the
\* fallback runs.
fallback_narrow(batched, merged) == batched = "raised" /\ merged = << >>

fallback_taken(batched, merged) == batched = "raised"

\* batch_files with a failed batch kept: its intermediate counted as written
batch_files_all(n_batches, batch_fail) == [ k \in 1..n_batches |-> k ]

\* batch_files after the loop: the batches (1-based) whose merge_pdfs returned,
\* in loop order; a batch whose merge raised is logged and left out.
batch_files(n_batches, batch_fail) ==
    LET good == { b \in 1..n_batches : b \notin batch_fail }
    IN  [ k \in 1..Cardinality(good) |->
            CHOOSE b \in good : Cardinality({ c \in good : c < b }) = k - 1 ]

\* _add_bookmarks_to_pdf writing straight into pdf_path: a failed write leaves
\* a truncated file
_add_bookmarks_in_place(pages, outcome) ==
    [ raised   |-> FALSE,
      pages    |-> IF outcome = "write_raises" THEN << >> ELSE pages,
      outlined |-> outcome = "ok",
      tmp_left |-> FALSE ]

\* _add_bookmarks_to_pdf(pdf_path, bookmarks) on a file with these pages.
\*   raised    an exception left the function
\*   pages     the pages of pdf_path afterwards
\*   outlined  pdf_path carries the outline afterwards
\*   tmp_left  the file pdf_path + ".tmp" exists afterwards
_add_bookmarks_to_pdf(pages, outcome) ==
    [ raised   |-> FALSE,
      pages    |-> pages,
      outlined |-> outcome = "ok",
      tmp_left |-> outcome \in { "write_raises", "replace_raises" } ]

\* _merge_pdf_files: the batched path, then the fallback.
\*   looped     the batch loop ran
\*   batches    the batches the loop formed
\*   failed     the batches whose merge_pdfs raised
\*   merged     the batches whose intermediate file was produced
\*   batched    "done" the batched path wrote the output, "raised" it raised
\*   direct     "none" no direct merge, "done" it wrote the output, "raised"
\*   returned   the call returned output_file (else it raised)
\*   written    the pages of output_file as the last merge_pdfs wrote it
\*   bookmark   what happened in _add_bookmarks_to_pdf, "none" when not called
\*   bm_raised  _add_bookmarks_to_pdf raised
\*   output     the pages of output_file after the call
\*   outlined   output_file carries the outline
\*   tmp_left   output_file + ".tmp" exists after the call
\*   dir_left   the batch directory exists after the call
_merge_pdf_files(docs, env) ==
    LET ran      == env.tmp # "enter_raises"
        batches  == IF ran THEN batches_of(docs) ELSE << >>
        merged   == batch_files(Len(batches), env.batch_fail)
        interm   == [ k \in 1..Len(merged) |-> merge_pdfs(batches[merged[k]]) ]
        wrote    == ran /\ merged # << >> /\ ~env.final_fail
        bm1      == _add_bookmarks_to_pdf(merge_pdfs(interm), env.bookmark)
        batched  == IF wrote /\ env.tmp = "ok" /\ ~bm1.raised THEN "done" ELSE "raised"
        direct   == IF ~fallback_taken(batched, merged) THEN "none"
                    ELSE IF env.direct_fail THEN "raised" ELSE "done"
        bm2      == _add_bookmarks_to_pdf(merge_pdfs(docs), env.bookmark)
        called1  == wrote /\ env.tmp = "ok"
        written  == IF direct = "done" THEN merge_pdfs(docs)
                    ELSE IF wrote THEN merge_pdfs(interm)
                    ELSE << >>
    IN  [ looped    |-> ran,
          batches   |-> batches,
          failed    |-> { b \in 1..Len(batches) : b \in env.batch_fail },
          merged    |-> merged,
          batched   |-> batched,
          direct    |-> direct,
          returned  |-> batched = "done" \/ direct = "done",
          written   |-> written,
          bookmark  |-> IF called1 \/ direct = "done" THEN env.bookmark ELSE "none",
          bm_raised |-> (called1 /\ bm1.raised) \/ (direct = "done" /\ bm2.raised),
          output    |-> IF direct = "done" THEN bm2.pages
                        ELSE IF called1 THEN bm1.pages
                        ELSE written,
          outlined  |-> IF direct = "done" THEN bm2.outlined
                        ELSE called1 /\ bm1.outlined,
          tmp_left  |-> IF direct = "done" THEN bm2.tmp_left \/ (called1 /\ bm1.tmp_left)
                        ELSE called1 /\ bm1.tmp_left,
          dir_left  |-> env.tmp = "cleanup_raises" ]

NoResult ==
    [ looped |-> FALSE, batches |-> << >>, failed |-> {}, merged |-> << >>, batched |-> "none",
      direct |-> "none", returned |-> FALSE, written |-> << >>, bookmark |-> "none",
      bm_raised |-> FALSE, output |-> << >>, outlined |-> FALSE, tmp_left |-> FALSE,
      dir_left |-> FALSE ]

MaxMergeFiles == 23

MaxPages == 2

\* The pages of file i when it has n pages.
Doc(i, n) == [ k \in 1..n |-> << i, k >> ]

\* Input lists: n files of one page each, but for one file that has up to
\* MaxPages pages, or cannot be read (no pages).
MergeInputs ==
    { [ i \in 1..n |-> IF i = odd[1] THEN Doc(i, odd[2]) ELSE Doc(i, 1) ] :
        n \in 0..MaxMergeFiles, odd \in (0..MaxMergeFiles) \X (0..MaxPages) }

MergePdfFiles ==
    /\ pc = "merge"
    /\ \E env \in MergeEnvs(Cardinality(batch_starts(Len(m_files)))) :
           m_result' = _merge_pdf_files(m_files, env)
    /\ pc' = "merged"
    /\ UNCHANGED << walk_vars, pdf_vars, run_vars, norm_vars, par_vars, cfg_vars, bm_vars, m_files >>

InitMerge ==
    /\ root = << >>
    /\ tree = {}
    /\ targets = << >>
    /\ content_files = << >>
    /\ enriched_content_files = << >>
    /\ normalized_content_pdfs = << >>
    /\ n_pages = << >>
    /\ toc_sections = << >>
    /\ toc_pages = 0
    /\ all_normalized_pdfs = << >>
    /\ final = NoResult
    /\ final_bookmarks = << >>
    /\ downloads_at = "base_dir"
    /\ title_page = FALSE
    /\ error = NoError
    /\ temp_exists = {}
    /\ norm_in = NoNormInput
    /\ norm_out = NoNormResult
    /\ norm_again = NoNormResult
    /\ par_in = NoParInput
    /\ par_task = << >>
    /\ par_results = << >>
    /\ par_raised = ""
    /\ config_file = NoFileYet
    /\ config = NoConfig
    /\ config_before = NoConfig
    /\ set_call = NoSetCall
    /\ config2 = NoConfig
    /\ config_raised = ""
    /\ bm_in = NoBookmarkInput
    /\ bm_out = NoOutline
    /\ pc = "merge"
    /\ m_files \in MergeInputs
    /\ m_result = NoResult

NextMerge == MergePdfFiles

SpecMerge == InitMerge /\ [][NextMerge]_vars

----------------------------------------------------------------------------
(* _extract_title_from_filename and _clean_name. \s is the space, the only *)
(* whitespace of the alphabet; \w is a letter, a digit or the underscore.  *)

Letters == { c \in Chars : LowerChar(c) # c \/ (Ord[c] >= Ord["a"] /\ Ord[c] <= Ord["z"]) }

Alnum == Letters \cup Digits

WordChars == Alnum \cup { "_" }

\* str.upper() on one character.
UpperChar(c) ==
    IF Ord[c] >= Ord["a"] /\ Ord[c] <= Ord["z"]
    THEN Alphabet[Ord[c] - Ord["a"] + Ord["A"]]
    ELSE c

\* str.capitalize()
capitalize(w) == [ i \in 1..Len(w) |-> IF i = 1 THEN UpperChar(w[i]) ELSE LowerChar(w[i]) ]

\* The number of leading characters of s that are in `set`.
RECURSIVE RunOf(_, _)
RunOf(s, set) == IF s # << >> /\ s[1] \in set THEN 1 + RunOf(Tail(s), set) ELSE 0

\* s[k:] for a 0-based k
From(s, k) == SubSeq(s, k + 1, Len(s))

\* " ".join(words)
RECURSIVE JoinWords(_)
JoinWords(words) ==
    IF words = << >> THEN << >>
    ELSE IF Len(words) = 1 THEN words[1]
    ELSE words[1] \o << " " >> \o JoinWords(Tail(words))

\* str.split(): the parts between runs of whitespace, none of them empty.
words_of(s) == SelectSeq(Split(s, " "), LAMBDA w : w # << >>)

\* Path(filename).stem
stem(name) == SubSeq(name, 1, Len(name) - Len(Suffix(name)))

\* The percent-escapes of the characters of the alphabet, hex digits in
\* upper case.
Escapes ==
    { << << "2", "0" >>, " " >>, << << "2", "5" >>, "%" >>, << << "2", "7" >>, "'" >>,
      << << "2", "D" >>, "-" >>, << << "2", "E" >>, "." >>, << << "5", "F" >>, "_" >> }

\* urllib.parse.unquote: every %XX is replaced by its character, left to
\* right in one pass; what is no escape stays.
RECURSIVE unquote(_)
unquote(s) ==
    IF s = << >> THEN << >>
    ELSE LET hits == { e \in Escapes :
                         /\ s[1] = "%"
                         /\ Len(s) >= 3
                         /\ << UpperChar(s[2]), UpperChar(s[3]) >> = e[1] }
         IN  IF hits # {}
             THEN << (CHOOSE e \in hits : TRUE)[2] >> \o unquote(From(s, 3))
             ELSE << s[1] >> \o unquote(Tail(s))

\* re.sub(r"^[a-zA-Z0-9]{15,25}[\s_-]+", "", s)
hash_prefix_removed(s) ==
    LET k == RunOf(s, Alnum)
        m == RunOf(From(s, k), { " ", "_", "-" })
    IN  IF k >= 15 /\ k <= 25 /\ m >= 1 THEN From(s, k + m) ELSE s

\* re.sub(r"^\d+[\.-]", "", s)
number_prefix_removed(s) ==
    LET k == DigitRun(s)
    IN  IF k >= 1 /\ Len(s) > k /\ s[k + 1] \in { ".", "-" } THEN From(s, k + 1) ELSE s

\* The length of the match of r"\b\d{4}\s+\d{8}\b[-\s]*" at position i of s,
\* 0 when there is none.
numeric_id_at(s, i) ==
    LET rest == From(s, i - 1)
        w    == RunOf(From(rest, 4), { " " })
        tail == From(rest, 4 + w + 8)
    IN  IF /\ (i = 1 \/ s[i - 1] \notin WordChars)
           /\ Len(rest) >= 4 + w + 8
           /\ RunOf(rest, Digits) = 4
           /\ w >= 1
           /\ RunOf(From(rest, 4 + w), Digits) >= 8
           /\ (tail = << >> \/ tail[1] \notin WordChars)
        THEN 4 + w + 8 + RunOf(tail, { "-", " " })
        ELSE 0

\* re.sub(r"\b\d{4}\s+\d{8}\b[-\s]*", "", s)
RECURSIVE numeric_ids_removed(_)
numeric_ids_removed(s) ==
    LET hits == { i \in 1..Len(s) : numeric_id_at(s, i) > 0 }
    IN  IF hits = {} THEN s
        ELSE LET i == CHOOSE h \in hits : \A j \in hits : h <= j
             IN  SubSeq(s, 1, i - 1) \o numeric_ids_removed(From(s, i - 1 + numeric_id_at(s, i)))

\* re.sub(r"^\s*\d+\s+", "", s)
leading_number_removed(s) ==
    LET a == RunOf(s, { " " })
        d == RunOf(From(s, a), Digits)
        b == RunOf(From(s, a + d), { " " })
    IN  IF d >= 1 /\ b >= 1 THEN From(s, a + d + b) ELSE s

\* The alternatives of r"(html?|pdf|md|markdown|text|summary)$".
content_indicators ==
    { << "h", "t", "m" >>, << "h", "t", "m", "l" >>, << "p", "d", "f" >>, << "m", "d" >>,
      << "m", "a", "r", "k", "d", "o", "w", "n" >>, << "t", "e", "x", "t" >>,
      << "s", "u", "m", "m", "a", "r", "y" >> }

\* re.sub(r"(html?|pdf|md|markdown|text|summary)$", "", s, flags=re.IGNORECASE):
\* the leftmost match is the longest alternative the text ends with.
content_indicator_removed(s) ==
    LET hits == { e \in content_indicators : EndsWith(Lower(s), e) }
    IN  IF hits = {} THEN s
        ELSE LET e == CHOOSE h \in hits : \A g \in hits : Len(g) <= Len(h)
             IN  SubSeq(s, 1, Len(s) - Len(e))

\* The length of the match of r"\b(week|module)\s+\d+\b" (IGNORECASE) at
\* position i of s, 0 when there is none.
week_at(s, i) ==
    LET rest == From(s, i - 1)
        word == IF StartsWith(Lower(rest), << "w", "e", "e", "k" >>) THEN 4
                ELSE IF StartsWith(Lower(rest), << "m", "o", "d", "u", "l", "e" >>) THEN 6
                ELSE 0
        w    == RunOf(From(rest, word), { " " })
        d    == RunOf(From(rest, word + w), Digits)
        tail == From(rest, word + w + d)
    IN  IF /\ (i = 1 \/ s[i - 1] \notin WordChars)
           /\ word > 0
           /\ w >= 1
           /\ d >= 1
           /\ (tail = << >> \/ tail[1] \notin WordChars)
        THEN word + w + d
        ELSE 0

\* re.sub(r"\b(week|module)\s+\d+\b", "", s, flags=re.IGNORECASE)
RECURSIVE weeks_removed(_)
weeks_removed(s) ==
    LET hits == { i \in 1..Len(s) : week_at(s, i) > 0 }
    IN  IF hits = {} THEN s
        ELSE LET i == CHOOSE h \in hits : \A j \in hits : h <= j
             IN  SubSeq(s, 1, i - 1) \o weeks_removed(From(s, i - 1 + week_at(s, i)))

lowercase_words ==
    { << "a" >>, << "a", "n" >>, << "t", "h", "e" >>, << "a", "n", "d" >>, << "b", "u", "t" >>,
      << "o", "r" >>, << "f", "o", "r" >>, << "n", "o", "r" >>, << "o", "n" >>, << "a", "t" >>,
      << "t", "o" >>, << "f", "r", "o", "m" >>, << "b", "y" >>, << "w", "i", "t", "h" >>,
      << "i", "n" >>, << "o", "f" >>, << "v", "s" >> }

\* The words of the title: capitalized, the common words after the first in
\* lower case.
title_words(words) ==
    [ i \in 1..Len(words) |->
        IF i > 1 /\ Lower(words[i]) \in lowercase_words
        THEN Lower(words[i])
        ELSE capitalize(words[i]) ]

\* The text before the words are split: the prefixes and numeric ids go, the
\* separators become spaces, the encoded apostrophe is decoded, the content
\* indicator at the end and the week indicators go.
cleaned_title(basename) ==
    LET a == hash_prefix_removed(basename)
        b == number_prefix_removed(a)
        c == numeric_ids_removed(b)
        d == leading_number_removed(c)
        e == Replace(Replace(Replace(d, << "-" >>, << " " >>), << "_" >>, << " " >>),
                     << "." >>, << " " >>)
        f == Replace(Replace(e, << "%", "e", "2", "%", "8", "0", "%", "9", "9", "s" >>,
                                << "'", "s" >>),
                     << "%", "e", "2", "%", "8", "0", "%", "9", "9" >>, << "'" >>)
        g == content_indicator_removed(f)
    IN  weeks_removed(g)

\* _extract_title_from_filename(filename)
_extract_title_from_filename(filename) ==
    LET basename == unquote(stem(filename))
        words    == words_of(cleaned_title(basename))
    IN  IF words # << >> THEN JoinWords(title_words(words)) ELSE basename

\* re.sub(r"^\d+\.\s*", "", name)
leading_number_dot_removed(name) ==
    LET k == DigitRun(name)
    IN  IF k >= 1 /\ Len(name) > k /\ name[k + 1] = "."
        THEN From(name, k + 1 + RunOf(From(name, k + 1), { " " }))
        ELSE name

\* _clean_name(name)
_clean_name(name) ==
    LET cleaned == Replace(Replace(leading_number_dot_removed(name), << "-" >>, << " " >>),
                           << "_" >>, << " " >>)
        words   == words_of(cleaned)
    IN  IF words # << >>
        THEN JoinWords([ i \in 1..Len(words) |-> capitalize(words[i]) ])
        ELSE name

----------------------------------------------------------------------------
(* generate_course_pdf after the dividers: normalization, the table of     *)
(* contents and the final merge.                                           *)

\* The index of the first match of re.search(r"divider_(\d+)", filename), 0
\* when there is none.
divider_match(name) ==
    LET hits == { i \in 1..(Len(name) - Len(s_divider_)) :
                    /\ SubSeq(name, i, i + Len(s_divider_) - 1) = s_divider_
                    /\ name[i + Len(s_divider_)] \in Digits }
    IN  IF hits = {} THEN 0 ELSE CHOOSE i \in hits : \A j \in hits : i <= j

\* int(module_match.group(1))
divider_module(name) ==
    LET rest == SubSeq(name, divider_match(name) + Len(s_divider_), Len(name))
    IN  IntOf(SubSeq(rest, 1, DigitRun(rest)))

\* output_file of normalize_pdf_page_size for the idx-th (0-based) file.
norm_name(idx, name) == s_norm_ \o Fmt03d(idx) \o << "_" >> \o name

\* The loop over enriched_content_files: normalize_pdf_page_size returns the
\* new file, or the original when it could not process the PDF (the files of
\* `failed`). Reading a file shows its pages: those of `multi` have n pages,
\* the others one.
NormalizeContent ==
    /\ pc = "divided"
    /\ \E failed \in SubsetsUpTo(1..Len(enriched_content_files), MaxNormFail) :
       \E multi \in SubsetsUpTo({ i \in 1..Len(enriched_content_files) :
                                    enriched_content_files[i].role = "content" },
                                MaxMultiPage) :
       \E n \in 2..MaxPages :
         /\ \A i, j \in 1..Len(enriched_content_files) :
                enriched_content_files[i].name = enriched_content_files[j].name
                => (i \in multi <=> j \in multi)
         /\ normalized_content_pdfs' =
              [ i \in 1..Len(enriched_content_files) |->
                  IF i \in failed THEN enriched_content_files[i]
                  ELSE [ enriched_content_files[i] EXCEPT
                           !.name = norm_name(i - 1, enriched_content_files[i].name) ] ]
         /\ n_pages' = [ i \in 1..Len(enriched_content_files) |-> IF i \in multi THEN n ELSE 1 ]
    /\ pc' = "normalized"
    /\ UNCHANGED << walk_vars, toc_sections, toc_pages, all_normalized_pdfs, final, final_bookmarks, run_vars,
                    norm_vars, par_vars, merge_vars, cfg_vars, bm_vars >>

\* The pages of the k-th file of a merge list when it has n pages.
DocsOf(counts) == [ k \in 1..Len(counts) |-> Doc(k, counts[k]) ]

\* temp_merged.pdf: [title_page] + normalized_content_pdfs. The merged file is
\* not read again; the call matters by returning or raising, and by the batch
\* directory it may leave behind (temp_merged.pdf and its .tmp are inside the
\* per-run directory and go with it).
MergeTemp ==
    /\ pc = "normalized"
    /\ \E env \in MergeEnvs(Cardinality(batch_starts(1 + Len(n_pages)))) :
       \E res \in { _merge_pdf_files(DocsOf(<< 1 >> \o n_pages), env) } :
         /\ pc' = IF res.returned THEN "temp_merged" ELSE "raised"
         /\ error' = IF res.returned THEN error ELSE MergeError
         /\ temp_exists' =
              (temp_exists \cup (IF res.dir_left THEN { "batch_dir" } ELSE {}))
              \ (IF res.returned THEN {} ELSE { "run_dir" })
    /\ UNCHANGED << walk_vars, pdf_vars, downloads_at, title_page, norm_vars, par_vars, merge_vars, cfg_vars, bm_vars >>

s_Module == << "M", "o", "d", "u", "l", "e", " " >>

\* module_name of a TOC entry of level 0: _clean_name(f"Module {module_num}"),
\* replaced by the cleaned name of the directory of `dirs` whose number is
\* module_num when there is one (the trees of the model hold one directory
\* per number, so the order of iterdir does not matter).
module_title(module_num, dirs) ==
    LET hits == { d \in dirs : NumPrefix(d) = module_num }
    IN  IF hits = {} THEN _clean_name(s_Module \o StrOf(module_num))
        ELSE _clean_name(CHOOSE d \in hits : TRUE)

\* The entries one file of normalized_content_pdfs adds to toc_sections, at
\* position k of the list, when current_page is `page` and the lookup of the
\* real module names iterates over the directories `dirs`.
\*   title, level, page  as in the code
\*   ref                 the position in normalized_content_pdfs of the file
\*                       the entry was made for
toc_entries(name, k, page, dirs) ==
    IF Contains(name, s_divider_)
    THEN IF divider_match(name) # 0
         THEN << [ title |-> module_title(divider_module(name), dirs),
                   level |-> 0, page |-> page, ref |-> k ] >>
         ELSE << >>
    ELSE IF Contains(name, s_norm_)
    THEN LET parts == Split(name, "_")
         IN  IF Len(parts) >= 5
             THEN << [ title |-> _extract_title_from_filename(parts[Len(parts)]),
                       level |-> 1, page |-> page, ref |-> k ] >>
             ELSE << >>
    ELSE LET parts == SplitMax(name, "_", 3)
         IN  IF Len(parts) >= 3
             THEN << [ title |-> _extract_title_from_filename(
                                     IF Len(parts) > 3 THEN parts[4] ELSE << >>),
                       level |-> 1, page |-> page, ref |-> k ] >>
             ELSE << >>

\* current_page starts at 3 and grows by one per file.
build_toc(files, dirs) ==
    Flatten([ k \in 1..Len(files) |-> toc_entries(files[k].name, k, 3 + (k - 1), dirs) ])

\* The directories the lookup of the real module names can iterate over:
\* none when self.config.config has no key that starts with "course:" or
\* the current directory holds no downloads directory of that course (the
\* tree found under base_dir is not under the current directory), the module
\* directories of the tree otherwise.
lookup_dirs ==
    IF downloads_at = "cwd" THEN { {}, { f.mod : f \in tree } } ELSE { {} }

\* The TOC entries, then create_toc_page renders them on one or more pages.
BuildToc ==
    /\ pc = "temp_merged"
    /\ \E dirs \in lookup_dirs :
           toc_sections' = build_toc(normalized_content_pdfs, dirs)
    /\ toc_pages' \in 1..MaxPages
    /\ pc' = "toc"
    /\ UNCHANGED << walk_vars, normalized_content_pdfs, n_pages, all_normalized_pdfs, final,
                    final_bookmarks, run_vars, norm_vars, par_vars, merge_vars, cfg_vars, bm_vars >>

\* int(s) returns: s is a decimal number, possibly signed, possibly between
\* spaces.
parses_as_int(s) ==
    LET w == words_of(s)
    IN  /\ Len(w) = 1
        /\ Len(Split(s, " ")) = 1 + RunOf(s, { " " }) + (Len(s) - Len(w[1]) - RunOf(s, { " " }))
        /\ LET body == IF w[1][1] = "-" THEN Tail(w[1]) ELSE w[1]
           IN  body # << >> /\ \A i \in 1..Len(body) : body[i] \in Digits

s_title_page_mark == << "t", "i", "t", "l", "e", "_", "p", "a", "g", "e" >>

s_toc_page_mark == << "t", "o", "c", "_", "p", "a", "g", "e" >>

\* The bookmarks one file of pdf_files adds, at position k of the list, when
\* current_page is `page`.
\*   title, level, page  as in the code
\*   ref                 the position in pdf_files of the file the bookmark
\*                       was made for
bookmark_entries(name, k, page) ==
    IF Contains(name, s_title_page_mark) \/ Contains(name, s_toc_page_mark)
    THEN << >>
    ELSE IF Contains(name, s_divider_)
    THEN IF divider_match(name) # 0
         THEN << [ title |-> _clean_name(s_Module \o StrOf(divider_module(name))),
                   level |-> 0, page |-> page, ref |-> k ] >>
         ELSE << >>
    ELSE LET normalized == Contains(name, s_norm_)
             parts == IF normalized THEN Split(name, "_") ELSE SplitMax(name, "_", 3)
             enough == IF normalized THEN Len(parts) >= 4 ELSE Len(parts) >= 3
             number == IF normalized THEN parts[3] ELSE parts[1]
         IN  IF enough /\ parses_as_int(number)
             THEN << [ title |-> _extract_title_from_filename(
                                     IF Len(parts) > 3 THEN parts[Len(parts)] ELSE name),
                       level |-> 1, page |-> page, ref |-> k ] >>
             ELSE << >>

\* _create_bookmarks_from_files(pdf_files): current_page starts at 0 and
\* grows by one per file.
_create_bookmarks_from_files(pdf_files) ==
    Flatten([ k \in 1..Len(pdf_files) |-> bookmark_entries(pdf_files[k], k, k - 1) ])

\* What normalize_pdf_page_size does with the cover or the TOC page: a new
\* file, the original when the PDF could not be processed, or an exception.
\* The page count is the same in the first two.
NormOutcomes == { "normalized", "original", "raised" }

\* The names of [norm_title, norm_toc], or of [title_page, toc_page] when
\* either call raised.
norm_front(title_out, toc_out) ==
    IF title_out = "raised" \/ toc_out = "raised"
    THEN << s_title_page, s_toc_page >>
    ELSE << IF title_out = "normalized" THEN s_norm_title ELSE s_title_page,
            IF toc_out = "normalized" THEN s_norm_toc ELSE s_toc_page >>

\* The cover and the TOC are normalized.
NormalizeFront ==
    /\ pc = "toc"
    /\ \E title_out, toc_out \in NormOutcomes :
           all_normalized_pdfs' =
               norm_front(title_out, toc_out)
               \o [ k \in 1..Len(normalized_content_pdfs) |-> normalized_content_pdfs[k].name ]
    /\ pc' = "front"
    /\ UNCHANGED << walk_vars, normalized_content_pdfs, n_pages, toc_sections, toc_pages, final,
                    final_bookmarks, run_vars, norm_vars, par_vars, merge_vars, cfg_vars, bm_vars >>

\* Everything is merged into output_file (the cover is one page), and the
\* `with` block is left: the per-run directory is removed with what is in it.
MergeFinal ==
    /\ pc = "front"
    /\ final_bookmarks' = _create_bookmarks_from_files(all_normalized_pdfs)
    /\ \E env \in MergeEnvs(Cardinality(batch_starts(2 + Len(n_pages)))) :
       \E res \in { _merge_pdf_files(DocsOf(<< 1, toc_pages >> \o n_pages), env) } :
         /\ final' = res
         /\ pc' = IF res.returned THEN "done" ELSE "raised"
         /\ error' = IF res.returned THEN error ELSE MergeError
         /\ temp_exists' =
              (temp_exists \cup (IF res.dir_left THEN { "batch_dir" } ELSE {})
                           \cup (IF res.tmp_left THEN { "output_tmp" } ELSE {}))
              \ { "run_dir" }
    /\ UNCHANGED << walk_vars, normalized_content_pdfs, n_pages, toc_sections, toc_pages,
                    all_normalized_pdfs, downloads_at, title_page, norm_vars, par_vars, merge_vars, cfg_vars, bm_vars >>

Init ==
    /\ root \in Roots
    /\ downloads_at \in { "base_dir", "cwd", "missing" }
    /\ tree \in CASE downloads_at = "missing" -> { {} }
                 [] downloads_at = "cwd" -> SubsetsUpTo(PdfUniverse, MaxCwdFiles)
                 [] OTHER -> SubsetsUpTo(PdfUniverse, MaxPdfFiles)
    /\ title_page = FALSE
    /\ error = NoError
    /\ temp_exists = { "init_dir" }
    /\ norm_in = NoNormInput
    /\ norm_out = NoNormResult
    /\ norm_again = NoNormResult
    /\ par_in = NoParInput
    /\ par_task = << >>
    /\ par_results = << >>
    /\ par_raised = ""
    /\ config_file = NoFileYet
    /\ config = NoConfig
    /\ config_before = NoConfig
    /\ set_call = NoSetCall
    /\ config2 = NoConfig
    /\ config_raised = ""
    /\ bm_in = NoBookmarkInput
    /\ bm_out = NoOutline
    /\ pc = "new"
    /\ targets = << >>
    /\ content_files = << >>
    /\ enriched_content_files = << >>
    /\ normalized_content_pdfs = << >>
    /\ n_pages = << >>
    /\ toc_sections = << >>
    /\ toc_pages = 0
    /\ all_normalized_pdfs = << >>
    /\ final = NoResult
    /\ final_bookmarks = << >>
    /\ m_files = << >>
    /\ m_result = NoResult

Next ==
    \/ FindDownloads
    \/ ProcessCourseFiles
    \/ NoContentFiles
    \/ InsertModuleDividers
    \/ NormalizeContent
    \/ MergeTemp
    \/ BuildToc
    \/ NormalizeFront
    \/ MergeFinal

Spec == Init /\ [][Next]_vars

----------------------------------------------------------------------------
(* Config on its own.                                                      *)

InitConfig ==
    /\ root = << >>
    /\ tree = {}
    /\ targets = << >>
    /\ content_files = << >>
    /\ enriched_content_files = << >>
    /\ normalized_content_pdfs = << >>
    /\ n_pages = << >>
    /\ toc_sections = << >>
    /\ toc_pages = 0
    /\ all_normalized_pdfs = << >>
    /\ final = NoResult
    /\ final_bookmarks = << >>
    /\ downloads_at = "base_dir"
    /\ title_page = FALSE
    /\ error = NoError
    /\ temp_exists = {}
    /\ norm_in = NoNormInput
    /\ norm_out = NoNormResult
    /\ norm_again = NoNormResult
    /\ m_files = << >>
    /\ m_result = NoResult
    /\ par_in = NoParInput
    /\ par_task = << >>
    /\ par_results = << >>
    /\ par_raised = ""
    /\ config_file \in ConfigFiles
    /\ config = NoConfig
    /\ config_before = NoConfig
    /\ set_call = NoSetCall
    /\ config2 = NoConfig
    /\ config_raised = ""
    /\ bm_in = NoBookmarkInput
    /\ bm_out = NoOutline
    /\ pc = "cfg"

NextConfig == LoadConfig \/ SetValue \/ SaveConfig \/ ReloadConfig

SpecConfig == InitConfig /\ [][NextConfig]_vars

----------------------------------------------------------------------------
(* _add_bookmarks_to_pdf on its own.                                       *)

InitBookmarks ==
    /\ root = << >>
    /\ tree = {}
    /\ targets = << >>
    /\ content_files = << >>
    /\ enriched_content_files = << >>
    /\ normalized_content_pdfs = << >>
    /\ n_pages = << >>
    /\ toc_sections = << >>
    /\ toc_pages = 0
    /\ all_normalized_pdfs = << >>
    /\ final = NoResult
    /\ final_bookmarks = << >>
    /\ downloads_at = "base_dir"
    /\ title_page = FALSE
    /\ error = NoError
    /\ temp_exists = {}
    /\ norm_in = NoNormInput
    /\ norm_out = NoNormResult
    /\ norm_again = NoNormResult
    /\ m_files = << >>
    /\ m_result = NoResult
    /\ par_in = NoParInput
    /\ par_task = << >>
    /\ par_results = << >>
    /\ par_raised = ""
    /\ config_file = NoFileYet
    /\ config = NoConfig
    /\ config_before = NoConfig
    /\ set_call = NoSetCall
    /\ config2 = NoConfig
    /\ config_raised = ""
    /\ bm_in \in [ bookmarks : BookmarkLists, num_pages : 0..MaxBookmarkPages,
                    float_page : FloatOutcomes ]
    /\ bm_out = NoOutline
    /\ pc = "bm"

NextBookmarks == AddBookmarks

SpecBookmarks == InitBookmarks /\ [][NextBookmarks]_vars

----------------------------------------------------------------------------
(* parallel_map on its own.                                                *)

InitPar ==
    /\ root = << >>
    /\ tree = {}
    /\ targets = << >>
    /\ content_files = << >>
    /\ enriched_content_files = << >>
    /\ normalized_content_pdfs = << >>
    /\ n_pages = << >>
    /\ toc_sections = << >>
    /\ toc_pages = 0
    /\ all_normalized_pdfs = << >>
    /\ final = NoResult
    /\ final_bookmarks = << >>
    /\ downloads_at = "base_dir"
    /\ title_page = FALSE
    /\ error = NoError
    /\ temp_exists = {}
    /\ norm_in = NoNormInput
    /\ norm_out = NoNormResult
    /\ norm_again = NoNormResult
    /\ m_files = << >>
    /\ m_result = NoResult
    /\ par_in \in ParInputs
    /\ par_task = << >>
    /\ par_results = << >>
    /\ par_raised = ""
    /\ config_file = NoFileYet
    /\ config = NoConfig
    /\ config_before = NoConfig
    /\ set_call = NoSetCall
    /\ config2 = NoConfig
    /\ config_raised = ""
    /\ bm_in = NoBookmarkInput
    /\ bm_out = NoOutline
    /\ pc = "par"

NextPar ==
    Submit \/ StartTask \/ FinishTask \/ Collect \/ TimeoutElapses \/ LoopEnds \/ Shutdown

SpecPar == InitPar /\ [][NextPar]_vars

\* The worker processes run: a queued call is started when a worker is free,
\* a call of a func that ends is finished, and the shutdown completes.
SpecParLive ==
    SpecPar /\ WF_vars(StartTask) /\ WF_vars(FinishTask) /\ WF_vars(Shutdown)

----------------------------------------------------------------------------
(* normalize_pdf_page_size on its own.                                     *)

InitNorm ==
    /\ root = << >>
    /\ tree = {}
    /\ targets = << >>
    /\ content_files = << >>
    /\ enriched_content_files = << >>
    /\ normalized_content_pdfs = << >>
    /\ n_pages = << >>
    /\ toc_sections = << >>
    /\ toc_pages = 0
    /\ all_normalized_pdfs = << >>
    /\ final = NoResult
    /\ final_bookmarks = << >>
    /\ downloads_at = "base_dir"
    /\ title_page = FALSE
    /\ error = NoError
    /\ temp_exists = {}
    /\ norm_in \in { in \in NormInputs : in.exists \/ in.sizes = << >> }
    /\ norm_out = NoNormResult
    /\ norm_again = NoNormResult
    /\ par_in = NoParInput
    /\ par_task = << >>
    /\ par_results = << >>
    /\ par_raised = ""
    /\ config_file = NoFileYet
    /\ config = NoConfig
    /\ config_before = NoConfig
    /\ set_call = NoSetCall
    /\ config2 = NoConfig
    /\ config_raised = ""
    /\ bm_in = NoBookmarkInput
    /\ bm_out = NoOutline
    /\ m_files = << >>
    /\ m_result = NoResult
    /\ pc = "norm"

NextNorm == NormalizePdf \/ NormalizeAgain

SpecNorm == InitNorm /\ [][NextNorm]_vars

----------------------------------------------------------------------------
(* The walk and the dividers on their own.                                  *)

Trees(U) == SubsetsUpTo(U, MaxFiles)

InitWalk ==
    /\ root \in Roots
    /\ tree \in Trees(WalkUniverse)
    /\ downloads_at = "base_dir"
    /\ title_page = TRUE
    /\ error = NoError
    /\ temp_exists = { "init_dir", "run_dir" }
    /\ norm_in = NoNormInput
    /\ norm_out = NoNormResult
    /\ norm_again = NoNormResult
    /\ par_in = NoParInput
    /\ par_task = << >>
    /\ par_results = << >>
    /\ par_raised = ""
    /\ config_file = NoFileYet
    /\ config = NoConfig
    /\ config_before = NoConfig
    /\ set_call = NoSetCall
    /\ config2 = NoConfig
    /\ config_raised = ""
    /\ bm_in = NoBookmarkInput
    /\ bm_out = NoOutline
    /\ pc = "start"
    /\ targets = << >>
    /\ content_files = << >>
    /\ enriched_content_files = << >>
    /\ normalized_content_pdfs = << >>
    /\ n_pages = << >>
    /\ toc_sections = << >>
    /\ toc_pages = 0
    /\ all_normalized_pdfs = << >>
    /\ final = NoResult
    /\ final_bookmarks = << >>
    /\ m_files = << >>
    /\ m_result = NoResult

NextWalk ==
    \/ ProcessCourseFiles
    \/ NoContentFiles
    \/ InsertModuleDividers

SpecWalk == InitWalk /\ [][NextWalk]_vars

----------------------------------------------------------------------------
(* The order and the selection the walk is specified to produce.           *)

IsSummaries(sub) == Lower(sub) = s_summaries

\* A summaries directory carrying a numeric prefix, such as 02.summaries.
IsPrefixedSummaries(sub) ==
    /\ NumPrefix(sub) >= 0
    /\ Lower(SubSeq(sub, DigitRun(sub) + 2, Len(sub))) = s_summaries

\* Subgroups ascending: numbered ones by number, then the unnumbered ones,
\* summaries last.
SubgroupBefore(a, b) ==
    /\ a # b
    /\ IF IsSummaries(a) # IsSummaries(b) THEN IsSummaries(b)
       ELSE IF (NumPrefix(a) >= 0) # (NumPrefix(b) >= 0) THEN NumPrefix(a) >= 0
       ELSE NumPathLt(<< NumPrefix(a), a >>, << NumPrefix(b), b >>)

\* Module number ascending (ties by directory name), then subgroup ascending
\* with summaries last, then files alphabetical.
ExpectedBefore(f, g) ==
    \/ NumPathLt(module_key(f), module_key(g))
    \/ /\ f.mod = g.mod
       /\ \/ SubgroupBefore(f.sub, g.sub)
          \/ f.sub = g.sub /\ FileLt(f, g)

Walked == pc \in { "processed", "divided" }

\* C2: sorting the synthetic filenames lexicographically (the returned list)
\* yields module number ascending, then subgroup ascending with summaries
\* last, then files alphabetical within the subgroup.
C2_SortedNamesGiveReadingOrder ==
    Walked =>
        \A i, j \in 1..Len(content_files) :
            i < j => ~ExpectedBefore(content_files[j].src, content_files[i].src)

\* C3: within every module the files of the subdirectory named summaries (any
\* letter case) come after the files of every other subdirectory of the module.
C3_SummariesLast ==
    Walked =>
        \A i, j \in 1..Len(content_files) :
            ( /\ content_files[i].src.mod = content_files[j].src.mod
              /\ IsSummaries(content_files[i].src.sub)
              /\ ~IsSummaries(content_files[j].src.sub) ) => j < i

\* C4: the files of a summaries subdirectory with a numeric prefix (02.summaries)
\* come after those of a sibling with a larger numeric prefix (05.extra).
C4_PrefixedSummariesLast ==
    Walked =>
        \A i, j \in 1..Len(content_files) :
            ( /\ content_files[i].src.mod = content_files[j].src.mod
              /\ IsPrefixedSummaries(content_files[i].src.sub)
              /\ ~IsPrefixedSummaries(content_files[j].src.sub)
              /\ NumPrefix(content_files[j].src.sub) > NumPrefix(content_files[i].src.sub) )
            => j < i

\* C5: no two discovered source files are assigned the same synthetic output
\* filename, and the returned list contains no path twice.
C5_UniqueNames ==
    Walked =>
        /\ \A i, j \in 1..Len(targets) : i # j => targets[i].name # targets[j].name
        /\ \A i, j \in 1..Len(content_files) :
               i # j => content_files[i].name # content_files[j].name

ContentOf(files) == SelectSeq(files, LAMBDA e : e.role = "content")

DividerIdx(files, m) == { i \in 1..Len(files) : files[i].role = "divider" /\ files[i].mod = m }

ContentIdx(files, m) == { i \in 1..Len(files) : files[i].role = "content" /\ files[i].mod = m }

\* C6: the list _insert_module_dividers returns holds a divider for module m
\* iff a content artifact of module m was produced, exactly one per such
\* module, immediately before the module's first content artifact, the modules
\* ascending, and the content artifacts in their original relative order.
C6_Dividers ==
    pc = "divided" =>
        LET out  == enriched_content_files
            mods == { out[i].mod : i \in 1..Len(out) }
                    \cup { content_files[i].mod : i \in 1..Len(content_files) }
        IN  /\ \A m \in mods :
                 /\ ContentIdx(content_files, m) # {}
                 /\ Cardinality(DividerIdx(out, m)) = 1
                 /\ \A d \in DividerIdx(out, m) :
                        /\ d + 1 \in ContentIdx(out, m)
                        /\ \A c \in ContentIdx(out, m) : d < c
            /\ \A i, j \in 1..Len(out) :
                 (out[i].role = "divider" /\ out[j].role = "divider" /\ i < j)
                 => out[i].mod < out[j].mod
            /\ ContentOf(out) = content_files

InTranscriptsDir(f) == \E i \in 1..Len(f.rel) : f.rel[i] = s_transcripts

Discovered == { targets[i].src : i \in 1..Len(targets) }

\* C8: a file of a regular (non-summaries) subgroup is a conversion target
\* exactly when its module's subdirectory is not named audio, video or
\* transcripts (any case), it has no video/audio extension and it is not under
\* a transcripts directory inside the course tree, wherever the course root is.
C8_IncludedExactly ==
    Walked =>
        \A f \in { g \in tree : ~IsSummaries(g.sub) } :
            f \in Discovered <=>
                /\ NumPrefix(f.mod) >= 0
                /\ Lower(f.sub) \notin excluded_dirs
                /\ Lower(Suffix(f.file)) \notin (video_extensions \cup audio_extensions)
                /\ ~InTranscriptsDir(f)

----------------------------------------------------------------------------
(* The merge engine.                                                       *)

RECURSIVE SumPages(_)
SumPages(docs) == IF docs = << >> THEN 0 ELSE Len(Head(docs)) + SumPages(Tail(docs))

\* C9: the batch loop partitions the n input files into ceil(n/10) consecutive
\* batches of 10 (the last possibly shorter) whose concatenation is the input;
\* when every batch merge and the merge of the intermediates succeed, the
\* output holds the pages of all inputs in input order: as many pages as the
\* inputs have together, and the same pages as one merge_pdfs of the whole list.
C9_BatchedMergeIsDirectMerge ==
    pc = "merged" =>
        LET n == Len(m_files)
            b == m_result.batches
        IN  /\ m_result.looped =>
                 /\ Len(b) = (n + 9) \div 10
                 /\ \A k \in 1..Len(b) :
                        Len(b[k]) = IF k < Len(b) THEN 10 ELSE n - 10 * (k - 1)
                 /\ Flatten(b) = m_files
            /\ (m_result.batched = "done" /\ Len(m_result.merged) = Len(b)) =>
                 /\ m_result.output = Flatten(m_files)
                 /\ Len(m_result.output) = SumPages(m_files)
                 /\ m_result.output = merge_pdfs(m_files)

C9_Witness ==
    /\ pc = "merged"
    /\ Len(m_files) = 23
    /\ \E i \in 1..23 : Len(m_files[i]) = 2
    /\ m_result.batched = "done"
    /\ m_result.merged = << 1, 2, 3 >>
    /\ Len(m_result.batches[1]) = 10
    /\ Len(m_result.batches[2]) = 10
    /\ Len(m_result.batches[3]) = 3
    /\ Len(m_result.output) = 24

\* C10: whenever the batched path raises, one direct merge_pdfs of the whole
\* input list is attempted; the call returns the output (the direct merge of
\* the input) if that merge succeeds, and raises only if it fails too.
C10_FallbackToDirectMerge ==
    pc = "merged" =>
        /\ m_result.batched = "raised" => m_result.direct # "none"
        /\ m_result.direct = "done" =>
               m_result.returned /\ m_result.output = merge_pdfs(m_files)
        /\ ~m_result.returned => m_result.batched = "raised" /\ m_result.direct = "raised"

C10_Witness ==
    /\ pc = "merged"
    /\ Len(m_files) > batch_size
    /\ m_result.batched = "raised"
    /\ m_result.merged # << >>
    /\ m_result.direct = "done"
    /\ m_result.returned
    /\ m_result.output = Flatten(m_files)

\* C1: in every run of generate_course_pdf that completes, whatever the page
\* counts of the artifacts and of the TOC, the page of each TOC entry lies in
\* 1..totalPages and is the position in the final document of the first page
\* of the artifact the entry was made for.
C1_TocPagesAreRealPositions ==
    pc = "done" =>
        \A e \in 1..Len(toc_sections) :
            /\ toc_sections[e].page \in 1..Len(final.output)
            /\ final.output[toc_sections[e].page] = << toc_sections[e].ref + 2, 1 >>

TocRefs(level) == { toc_sections[e].ref : e \in { x \in 1..Len(toc_sections) : toc_sections[x].level = level } }

\* C7: the TOC entries are exactly one level-0 entry per module with a content
\* artifact (made for that module's divider) and exactly one level-1 entry per
\* content artifact, in document order, with strictly increasing pages, the
\* first of them 3.
C7_TocEntries ==
    pc \in { "toc", "done" } =>
        LET files == normalized_content_pdfs
            n     == Len(toc_sections)
        IN  /\ TocRefs(0) = { k \in 1..Len(files) : files[k].role = "divider" }
            /\ TocRefs(1) = { k \in 1..Len(files) : files[k].role = "content" }
            /\ Cardinality(TocRefs(0)) = Cardinality({ content_files[i].mod : i \in 1..Len(content_files) })
            /\ \A a, b \in 1..n :
                 a < b => /\ toc_sections[a].ref < toc_sections[b].ref
                          /\ toc_sections[a].page < toc_sections[b].page
            /\ n > 0 => toc_sections[1].page = 3

FailedBatches == m_result.failed

\* The outcome the claim describes: no fallback, the call returns, and the
\* output is the pages of the merged batches in order, none of a failed batch.
SkippedOutcome ==
    /\ m_result.direct = "none"
    /\ m_result.returned
    /\ m_result.output =
         Flatten([ k \in 1..Len(m_result.merged) |-> Flatten(m_result.batches[m_result.merged[k]]) ])
    /\ \A b \in FailedBatches : \A i \in 1..Len(m_result.batches[b]) :
         \A k \in 1..Len(m_result.batches[b][i]) :
           \A p \in 1..Len(m_result.output) : m_result.output[p] # m_result.batches[b][i][k]

\* C11 (as stated): if the merge of a batch raises while another batch is
\* merged, _merge_pdf_files does not fall back to the direct merge and its
\* output is the in-order concatenation of the merged batches alone.
C11_FailedBatchSkipped ==
    (pc = "merged" /\ FailedBatches # {} /\ FailedBatches # 1..Len(m_result.batches))
        => SkippedOutcome

\* C11 (amended): the same, when the merge of the intermediates and the
\* removal of the batch directory do not raise (the batched path completes).
C11_FailedBatchSkippedWhenBatchedPathCompletes ==
    (pc = "merged" /\ FailedBatches # {} /\ FailedBatches # 1..Len(m_result.batches)
        /\ m_result.batched = "done") => SkippedOutcome

C11_Witness ==
    /\ pc = "merged"
    /\ Len(m_files) = 23
    /\ FailedBatches = { 2 }
    /\ m_result.merged = << 1, 3 >>
    /\ m_result.batched = "done"
    /\ m_result.direct = "none"
    /\ Len(m_result.output) = 13

\* C12: when the batched path produces no intermediate file (every batch
\* merge raised, or the input list is empty), _merge_pdf_files raises: it does
\* not return an output path.
C12_NoIntermediatesFails ==
    (pc = "merged" /\ m_result.looped /\ m_result.merged = << >>) => ~m_result.returned

\* C13: _add_bookmarks_to_pdf never raises; when a step of it fails,
\* _merge_pdf_files still returns the output path, the failure triggers no
\* fallback merge, and the output file is exactly what the merge wrote.
C13_BookmarkFailureSwallowed ==
    (pc = "merged" /\ m_result.bookmark \notin { "none", "ok" }) =>
        /\ ~m_result.bm_raised
        /\ m_result.returned
        /\ m_result.batched = "done" => m_result.direct = "none"
        /\ m_result.output = m_result.written
        /\ ~m_result.outlined

C13_Witness ==
    /\ pc = "merged"
    /\ m_result.bookmark = "write_raises"
    /\ m_result.batched = "done"
    /\ m_result.returned
    /\ Len(m_result.output) > batch_size
    /\ m_result.output = m_result.written

\* The source files behind a list of conversions, in list order.
Sources(files) == [ i \in 1..Len(files) |-> files[i].src ]

\* The discovered files whose conversion returned None.
BadFiles == { targets[i].src : i \in { k \in 1..Len(targets) : ~targets[k].ok } }

\* The calls of _convert_file_to_pdf on the same tree with the files of `bad`
\* removed (their directories stay).
TargetsWithout(bad) ==
    LET found == SortedSeq(discovered(root, tree \ bad), CallBefore)
    IN  [ k \in 1..Len(found) |->
            [ src  |-> found[k],
              name |-> output_name(new_filename(NumPrefix(found[k].mod),
                                                subdir_idx(tree, found[k]),
                                                file_idx(root, tree \ bad, found[k]),
                                                found[k].file)) ] ]

\* C14: a source file whose conversion raises, or whose extension is not
\* .pdf, .md, .html or .txt, is left out of the list _process_course_files
\* returns, which does not raise; every other discovered file is converted and
\* its path returned, and the files behind the list are in the order they
\* would have if the bad files were not in the tree.
C14_BadFileSkipped ==
    Walked =>
        LET returned == appended(targets)
        IN  /\ [ j \in 1..Len(content_files) |-> content_files[j].name ]
                 = [ j \in 1..Len(returned) |-> returned[j].name ]
            /\ \A j \in 1..Len(returned) :
                 /\ returned[j].src \notin BadFiles
                 /\ Lower(Suffix(returned[j].src.file)) \in { ext_pdf, ext_md, ext_html, ext_txt }
            /\ { returned[j].src : j \in 1..Len(returned) }
                 = { targets[i].src : i \in 1..Len(targets) } \ BadFiles
            /\ Len(returned) = Len(targets) - Cardinality(BadFiles)
            /\ Sources(returned) = Sources(appended(converted(TargetsWithout(BadFiles), {})))

\* C15: generate_course_pdf raises, the final output file never written, when
\* the downloads directory exists neither under base_dir nor under the
\* current directory, or when no content file was converted; with the
\* directory missing it raises before the cover, any conversion or any merge,
\* and the message names the missing path.
C15_RaisesWithoutOutput ==
    /\ (downloads_at = "missing" /\ pc # "new") =>
           /\ pc = "raised"
           /\ error.type = "ValueError"
           /\ error.path = root \o << s_data, s_courses, CourseId, s_downloads >>
           /\ ~title_page
           /\ targets = << >>
           /\ final = NoResult
    /\ (downloads_at # "missing" /\ content_files = << >> /\ pc \notin { "new", "start" }) =>
           /\ pc \in { "processed", "raised" }
           /\ pc = "raised" => error = ValueError("No content files generated", << >>)
           /\ final = NoResult
    /\ (pc = "raised" /\ error.type = "ValueError") => final = NoResult

C15_Witness ==
    /\ pc = "raised"
    /\ downloads_at = "missing"
    /\ error = ValueError("Downloads directory not found",
                          << d_srv, s_data, s_courses, CourseId, s_downloads >>)
    /\ temp_exists = { "init_dir" }

\* C16: once generate_course_pdf has returned or raised, every temporary
\* directory and intermediate file made since the PDFGenerator was constructed
\* (the directory of __init__, the per-run directory, the batch-merge
\* directory, the bookmark .tmp file) has been removed.
C16_NothingTemporaryRemains ==
    pc \in { "done", "raised" } => temp_exists = {}

\* C17: normalize_pdf_page_size is idempotent on page geometry: applied to the
\* file it returned, with the same target, it returns a file with the same
\* sequence of page sizes.
C17_NormalizeIdempotent ==
    (pc = "norm_twice" /\ norm_out.fault = "ok" /\ norm_again.fault = "ok"
        /\ norm_again.returned # "none") => norm_again.sizes = norm_out.sizes

C17_Witness ==
    /\ pc = "norm_twice"
    /\ norm_in.sizes = << << 300, 400 >>, << 615, 795 >> >>
    /\ norm_in.target = << 595, 842 >>
    /\ norm_out.returned = "output"
    /\ norm_out.sizes = << << 595, 842 >>, << 615, 795 >> >>
    /\ norm_again.returned = "output"
    /\ norm_again.sizes = norm_out.sizes

\* C18: when processing the PDF fails, normalize_pdf_page_size does not raise
\* and returns the path of the original PDF, which is unmodified; so it always
\* returns the path of a usable PDF, whatever the input and output paths.
C18_NormalizeFallsBackToOriginal ==
    pc = "norm_once" =>
        /\ norm_out.raised = ""
        /\ norm_out.returned # "none"
        /\ norm_out.returned = "original" => norm_out.intact

\* The calls of parallel_map on which func returns.
Succeeded == { i \in 1..Len(par_in.items) : par_in.func[par_in.items[i]] = "returns" }

\* How many entries of a list equal v.
Occurrences(list, v) == Cardinality({ k \in 1..Len(list) : list[k] = v })

\* results holds the result of every call that succeeded, once per call,
\* and nothing else.
ResultsOfSucceeded ==
    /\ Len(par_results) = Cardinality(Succeeded)
    /\ \A v \in { work_func(x) : x \in 1..MaxItem } :
          Occurrences(par_results, v)
              = Cardinality({ i \in Succeeded : work_func(par_in.items[i]) = v })

\* C19: when func succeeds for every item, parallel_map returns one result
\* per item, in the order of the input items, whatever the order in which
\* the calls complete.
C19_ResultsInInputOrder ==
    (pc = "par_returned" /\ Succeeded = 1..Len(par_in.items)) =>
        par_results = [ i \in 1..Len(par_in.items) |-> work_func(par_in.items[i]) ]

Hanging == { i \in 1..Len(par_in.items) : par_in.func[par_in.items[i]] = "hangs" }

InvalidQuality(file) ==
    /\ KindAt(file, << k_global, k_video_quality >>) = "str"
    /\ \A n \in file : n.path = << k_global, k_video_quality >> => n.value \notin valid_qualities

\* C22: making a Config from a file whose global.video_quality is not an
\* allowed quality fails with ValidationError, and no Config holds the
\* invalid configuration.
C22_InvalidConfigRejected ==
    (pc \in { "cfg_loaded", "cfg_raised" } /\ InvalidQuality(config_file)) =>
        /\ pc = "cfg_raised"
        /\ config_raised = "ValidationError"
        /\ config = NoConfig

\* The fallback handed to get in the formulas: no value of a configuration.
Fallback == Scalar("fallback", "")

\* Two settings of which neither contains the other.
Unrelated(p, q) == ~IsPrefix(p, q) /\ ~IsPrefix(q, p)

\* C23: for any path and value, after set(path, v) get(path) returns v and
\* every other existing setting is as before; after save(), a Config loaded
\* from the file returns v for the path too.
C23_SetThenGet ==
    /\ pc \in { "cfg_set", "cfg_set_raised" } =>
          /\ set_call.raised = ""
          /\ get(config, set_call.path, Fallback) = set_call.value
          /\ \A n \in config_before :
                Unrelated(n.path, Split(set_call.path, ".")) =>
                    get_parts(config, n.path, Fallback) = get_parts(config_before, n.path, Fallback)
    /\ pc \in { "cfg_reloaded", "cfg_reload_raised" } =>
          /\ config_raised = ""
          /\ get(config2, set_call.path, Fallback) = set_call.value

\* The outline item made from entry i of the bookmark list, 0 if none.
ItemOf(i) ==
    IF \E k \in 1..Len(bm_out.outline) : bm_out.outline[k].entry = i
    THEN CHOOSE k \in 1..Len(bm_out.outline) : bm_out.outline[k].entry = i
    ELSE 0

\* The page of an entry is an integer, or the digits of one, inside the
\* document.
PageInDocument(page) ==
    page.kind \in { "int", "str" } /\ page.n >= 0 /\ page.n < bm_in.num_pages

\* C24: every bookmark attached points to a page of the output, and an entry
\* whose page is negative, past the last page or not an integer is dropped
\* without raising and without keeping the other entries from being
\* attached.
C24_OnlyValidPagesAttached ==
    pc = "bm_done" =>
        /\ \A k \in 1..Len(bm_out.outline) :
              bm_out.outline[k].page >= 0 /\ bm_out.outline[k].page < bm_in.num_pages
        /\ \A i \in 1..Len(bm_in.bookmarks) :
              (ItemOf(i) # 0) <=> PageInDocument(bm_in.bookmarks[i].page)

\* The level-0 entries before entry i that were attached.
AttachedModulesBefore(i) ==
    { j \in 1..(i - 1) : bm_in.bookmarks[j].level = 0 /\ ItemOf(j) # 0 }

\* C25: an attached level-1 bookmark is a child of the nearest level-0
\* bookmark before it in the list, whatever the titles; it is at top level
\* only when no level-0 bookmark before it was attached.
C25_ChildOfNearestModule ==
    pc = "bm_done" =>
        \A i \in 1..Len(bm_in.bookmarks) :
            (bm_in.bookmarks[i].level = 1 /\ ItemOf(i) # 0) =>
                LET before == AttachedModulesBefore(i)
                IN  IF before = {} THEN bm_out.outline[ItemOf(i)].parent = 0
                    ELSE bm_out.outline[ItemOf(i)].parent
                            = ItemOf(CHOOSE j \in before : \A k \in before : k <= j)

\* Two lengths differ by at most percent% of the second.
WithinPercent(a, b, percent) == 100 * (IF a < b THEN b - a ELSE a - b) <= percent * b

\* Letter, Legal, Tabloid, A3, A4 and A5 in points.
RecognisedPapers ==
    { << 612, 792 >>, << 612, 1008 >>, << 792, 1224 >>, << 842, 1190 >>, << 595, 842 >>,
      << 420, 595 >> }

\* The three cases in which a page is to be copied unchanged.
CopiedUnchanged(size, target, recognise) ==
    \/ WithinPercent(size[1], target[1], 1) /\ WithinPercent(size[2], target[2], 1)
    \/ /\ recognise
       /\ \E paper \in RecognisedPapers :
            \/ WithinPercent(size[1], paper[1], 1) /\ WithinPercent(size[2], paper[2], 1)
            \/ WithinPercent(size[1], paper[2], 1) /\ WithinPercent(size[2], paper[1], 1)
    \/ WithinPercent(size[1], target[1], 5) /\ WithinPercent(size[2], target[2], 5)

\* C26: the file normalize_pdf_page_size writes has the pages of the input in
\* their order; a page is copied unchanged exactly when it matches the target
\* within 1%, or is a recognised standard paper, or is within 5% of the
\* target, and has the target width and height otherwise.
C26_PageKeptOrTarget ==
    (pc = "norm_once" /\ norm_out.returned = "output") =>
        /\ Len(norm_out.sizes) = Len(norm_in.sizes)
        /\ \A k \in 1..Len(norm_in.sizes) :
              /\ norm_out.content[k].new_page
                    <=> ~CopiedUnchanged(norm_in.sizes[k], norm_in.target, norm_in.standard_sizes)
              /\ norm_out.sizes[k]
                    = IF CopiedUnchanged(norm_in.sizes[k], norm_in.target, norm_in.standard_sizes)
                      THEN norm_in.sizes[k] ELSE norm_in.target

C26_Witness ==
    /\ pc = "norm_once"
    /\ norm_in.sizes = << << 630, 810 >>, << 300, 400 >> >>
    /\ norm_in.target = << 612, 792 >>
    /\ norm_in.standard_sizes
    /\ norm_out.returned = "output"
    /\ norm_out.sizes = << << 630, 810 >>, << 612, 792 >> >>
    /\ ~norm_out.content[1].new_page
    /\ norm_out.content[2].new_page

\* C27: with preserve_aspect_ratio off, the content of a page that is put on
\* a blank target page is scaled to 95% of the target width and of the
\* target height and moved by 2.5% of the target width and height.
C27_StretchedContent ==
    (pc = "norm_once" /\ norm_out.returned = "output" /\ ~norm_in.preserve_aspect_ratio) =>
        \A k \in 1..Len(norm_in.sizes) :
            norm_out.content[k].new_page =>
                /\ SameFraction(norm_out.content[k].scale_x,
                                << 95 * norm_in.target[1], 100 * norm_in.sizes[k][1] >>)
                /\ SameFraction(norm_out.content[k].scale_y,
                                << 95 * norm_in.target[2], 100 * norm_in.sizes[k][2] >>)
                /\ SameFraction(norm_out.content[k].x_offset, << norm_in.target[1], 40 >>)
                /\ SameFraction(norm_out.content[k].y_offset, << norm_in.target[2], 40 >>)

\* C28: after the final merge, the bookmark list built by
\* _create_bookmarks_from_files and the TOC entry list have the same length
\* and, position by position, the same level, and the page of the bookmark
\* (0-based) plus one is the page of the TOC entry.
C28_BookmarksMatchToc ==
    pc = "done" =>
        /\ Len(final_bookmarks) = Len(toc_sections)
        /\ \A e \in 1..Len(toc_sections) :
              /\ final_bookmarks[e].level = toc_sections[e].level
              /\ final_bookmarks[e].page + 1 = toc_sections[e].page

\* The TOC entries and the bookmarks made for the k-th file of
\* normalized_content_pdfs (the final merge list has the cover and the TOC
\* page before it).
TocEntriesOf(k) == { e \in 1..Len(toc_sections) : toc_sections[e].ref = k }

BookmarksOf(k) == { b \in 1..Len(final_bookmarks) : final_bookmarks[b].ref = k + 2 }

\* The cleaned name of the module directory a divider page was made for.
ModuleDirTitles(k) ==
    { _clean_name(f.mod) : f \in { g \in tree : NumPrefix(g.mod) = normalized_content_pdfs[k].mod } }

\* C29: the outline and the TOC carry the same titles: the TOC entry and the
\* bookmark made for the same file have the same title, and for the divider
\* of a module that title is the cleaned name of the module directory.
C29_SameTitles ==
    pc = "done" =>
        \A k \in 1..Len(normalized_content_pdfs) :
            \A e \in TocEntriesOf(k) : \A b \in BookmarksOf(k) :
                /\ final_bookmarks[b].title = toc_sections[e].title
                /\ normalized_content_pdfs[k].role = "divider"
                   => toc_sections[e].title \in ModuleDirTitles(k)

\* What follows the three numbers in the name _process_course_files gave
\* the converted file.
original_filename(entry) == SplitMax(enriched_content_files[entry].name, "_", 3)[4]

\* C30: the TOC title and the bookmark title of a content file are
\* _extract_title_from_filename of the complete original filename, with the
\* norm_NNN_ prefix or without it, with underscores in the filename or not.
C30_TitleOfWholeFilename ==
    pc = "done" =>
        \A k \in 1..Len(normalized_content_pdfs) :
            normalized_content_pdfs[k].role = "content" =>
                /\ \A e \in TocEntriesOf(k) :
                      toc_sections[e].title = _extract_title_from_filename(original_filename(k))
                /\ \A b \in BookmarksOf(k) :
                      final_bookmarks[b].title = _extract_title_from_filename(original_filename(k))

====
